---------------------------- MODULE Spec2Model ----------------------------
(***************************************************************************)
(* MP3 ancillary-byte LSB steganography (steno-backend/LSB_AUDIO).         *)
(*                                                                         *)
(* The frame scanner, the side-info bit parser, the ancillary locator, the *)
(* frame scrambler, the payload codec, the additive cipher with its seed   *)
(* derivation and the encrypt/decrypt pipeline of ancillary_data.py,       *)
(* cipher.py and main_pipeline.py, as operators over byte sequences, and   *)
(* the calls of them as actions.                                           *)
(*                                                                         *)
(* Byte buffers are sequences over 0..255.  Python offsets are 0-based:    *)
(* the byte at offset k of a buffer b is b[k + 1].                         *)
(***************************************************************************)
EXTENDS Integers, Sequences, FiniteSets, TLC

VARIABLES
    pc,          \* position of the running call
    input_mp3,   \* the carrier handed to the call (bytes, never mutated)
    mp3_bytes,   \* the working buffer (the bytearray embed mutates)
    i,           \* scan_frames_for_ancillary: cursor
    frame_idx,   \* scan_frames_for_ancillary: next frame_index
    results,     \* scan_frames_for_ancillary: frames found so far
    frames_info, \* the frame list handed to the codec
    call,        \* arguments of the call
    ret,         \* what the call returned or raised
    random_state, \* state of the process-wide generator of module random
    seed_log     \* the evaluations of generateSeed(generateKey(pw)) made so far

vars == <<pc, input_mp3, mp3_bytes, i, frame_idx, results, frames_info, call, ret,
         random_state, seed_log>>

(***************************************************************************)
(* Python values                                                           *)
(***************************************************************************)
\* Python's None, as a record no other value is equal to; every value that may
\* be None is a record.
None == [is_none |-> TRUE]

IsNone(x) == "is_none" \in DOMAIN x

\* seq[a:b] of Python for 0 <= a: the elements at offsets a .. b-1 that exist.
Slice(s, a, b) ==
    LET hi == IF b < Len(s) THEN b ELSE Len(s)
    IN  IF a >= hi THEN << >> ELSE [k \in 1..(hi - a) |-> s[a + k]]

Max(a, b) == IF a > b THEN a ELSE b

Min(a, b) == IF a < b THEN a ELSE b

RECURSIVE Pow2(_)
Pow2(n) == IF n = 0 THEN 1 ELSE 2 * Pow2(n - 1)

RECURSIVE SumSeq(_)
SumSeq(s) == IF s = << >> THEN 0 ELSE Head(s) + SumSeq(Tail(s))

RECURSIVE Flatten(_)
Flatten(ss) == IF ss = << >> THEN << >> ELSE Head(ss) \o Flatten(Tail(ss))

(***************************************************************************)
(* MP3 parsing helpers                                                     *)
(***************************************************************************)
is_frame_sync(header) ==
    /\ Len(header) >= 2
    /\ header[1] = 255
    /\ (header[2] \div 32) % 8 = 7

bitrate_table_v1_l3 == <<0, 32, 40, 48, 56, 64, 80, 96, 112, 128, 160, 192, 224, 256, 320, 0>>

bitrate_table_v2_l3 == <<0, 8, 16, 24, 32, 40, 48, 56, 64, 80, 96, 112, 128, 144, 160, 0>>

samplerate_table_v1 == <<44100, 48000, 32000, 0>>

samplerate_table_v2 == <<22050, 24000, 16000, 0>>

\* A frame size computed from the bitrate in kbit/s, the unit of the tables.
frame_size_of_kbit(mpeg_version, layer, bitrate, samplerate, padding) ==
    IF layer = 3 /\ mpeg_version # 1
    THEN ((72 * (bitrate \div 1000)) \div samplerate) + padding
    ELSE ((144 * (bitrate \div 1000)) \div samplerate) + padding

\* int(coefficient * bitrate / samplerate) + padding: the quotient is positive
\* and int() truncates, so it is the integer quotient.
frame_size_of(mpeg_version, layer, bitrate, samplerate, padding) ==
    IF layer = 3
    THEN IF mpeg_version = 1
         THEN ((144 * bitrate) \div samplerate) + padding
         ELSE ((72 * bitrate) \div samplerate) + padding
    ELSE ((144 * bitrate) \div samplerate) + padding

side_info_size_of(channel_mode) == IF channel_mode = 3 THEN 17 ELSE 32

parse_header(header) ==
    IF Len(header) < 4 THEN None
    ELSE
    LET b1 == header[2]
        b2 == header[3]
        b3 == header[4]
        ver_bits == (b1 \div 8) % 4
        mpeg_version == IF ver_bits = 3 THEN 1 ELSE 2
        layer_bits == (b1 \div 2) % 4
        layer == CASE layer_bits = 1 -> 3
                   [] layer_bits = 2 -> 2
                   [] layer_bits = 3 -> 1
                   [] OTHER -> 0
        bitrate_idx == (b2 \div 16) % 16
        samplerate_idx == (b2 \div 4) % 4
        padding == (b2 \div 2) % 2
        channel_mode == (b3 \div 64) % 4
        bitrate == IF mpeg_version = 1 /\ layer = 3
                   THEN bitrate_table_v1_l3[bitrate_idx + 1] * 1000
                   ELSE bitrate_table_v2_l3[bitrate_idx + 1] * 1000
        samplerate == IF mpeg_version = 1
                      THEN samplerate_table_v1[samplerate_idx + 1]
                      ELSE samplerate_table_v2[samplerate_idx + 1]
    IN  IF layer = 0 THEN None
        ELSE IF bitrate = 0 \/ samplerate = 0 THEN None
        ELSE [frame_size |-> frame_size_of(mpeg_version, layer, bitrate, samplerate, padding),
              side_info_size |-> side_info_size_of(channel_mode),
              mpeg_version |-> mpeg_version,
              layer |-> layer,
              channel_mode |-> channel_mode,
              bitrate |-> bitrate,
              samplerate |-> samplerate]

skip_id3v2(b) ==
    IF Len(b) < 10 THEN 0
    ELSE IF Slice(b, 0, 3) = <<73, 68, 51>>
         THEN 10 + (b[7] % 128) * 2097152 + (b[8] % 128) * 16384
                 + (b[9] % 128) * 128 + (b[10] % 128)
         ELSE 0

(***************************************************************************)
(* side_info minimal parser                                                *)
(*                                                                         *)
(* The bit list with its cursor ptr is one record; ok turns FALSE when a   *)
(* read(n) raises, and nothing is read after that (the exception leaves    *)
(* the try block).  vals holds the values read so far, chinfo the channel  *)
(* records appended so far, in granule order.                              *)
(***************************************************************************)
\* The 8 bits of one byte, most significant first.
byte_bits(byte) == [bitpos \in 1..8 |-> (byte \div Pow2(8 - bitpos)) % 2]

bytes_to_bitlist(barr) == Flatten([k \in 1..Len(barr) |-> byte_bits(barr[k])])

RECURSIVE bits_value(_, _, _)
\* val = (val << 1) | bits[ptr], n times from offset ptr: the n bits as a number.
bits_value(bits, ptr, n) ==
    IF n = 0 THEN 0
    ELSE 2 * bits_value(bits, ptr, n - 1) + bits[ptr + n]

\* read(n) at the cursor.
read(cur, n) ==
    IF ~cur.ok THEN cur
    ELSE IF cur.ptr + n > Len(cur.bits) THEN [cur EXCEPT !.ok = FALSE]
    ELSE [cur EXCEPT !.ptr = cur.ptr + n,
                     !.vals = Append(cur.vals, bits_value(cur.bits, cur.ptr, n))]

RECURSIVE read_fields(_, _)
\* Consecutive read(n) calls, one for each width, up to the first that raises.
read_fields(cur, widths) ==
    IF ~cur.ok \/ widths = << >> THEN cur
    ELSE read_fields(read(cur, Head(widths)), Tail(widths))

\* part2_3_length, big_values, global_gain, scalefac_compress, window_switching_flag
granule_head_widths == <<12, 9, 8, 4, 1>>

\* The widths of ISO 11172-3 for a switched block: block_type, mixed_block_flag,
\* 2 table_select, 3 subblock_gain, preflag, scalefac_scale, count1table_select.
iso_window_switching_widths == <<2, 1, 5, 5, 3, 3, 3, 1, 1, 1>>

\* block_type, mixed_block_flag, 3 table_select, 3 subblock_gain, region0, region1
window_switching_widths == <<2, 1, 5, 5, 5, 3, 3, 3, 4, 3>>

\* 3 table_select, region0, region1, preflag, scalefac_scale, count1table_select
normal_block_widths == <<5, 5, 5, 4, 3, 1, 1, 1>>

\* The fields after window_switching_flag, which is the value read last, and
\* channels.append of the part2_3_length and big_values read 5 and 4 values ago.
parse_channel_tail(cur) ==
    IF ~cur.ok THEN cur
    ELSE [read_fields(cur, IF cur.vals[Len(cur.vals)] = 1
                           THEN window_switching_widths
                           ELSE normal_block_widths)
          EXCEPT !.chinfo = Append(cur.chinfo,
                                   [part2_3_length |-> cur.vals[Len(cur.vals) - 4],
                                    big_values |-> cur.vals[Len(cur.vals) - 3]])]

\* One pass of the body of "for c in range(ch)".
parse_channel(cur) == parse_channel_tail(read_fields(cur, granule_head_widths))

RECURSIVE parse_channels(_, _)
\* n passes of the body of "for c in range(ch)", up to the first that raises.
parse_channels(cur, n) ==
    IF ~cur.ok \/ n = 0 THEN cur ELSE parse_channels(parse_channel(cur), n - 1)

\* The dict returned when no read raised, None otherwise; main_data_begin is
\* the first value read.
side_info_result(cur, ch) ==
    IF cur.ok
    THEN [main_data_begin |-> cur.vals[1],
          granules |-> <<SubSeq(cur.chinfo, 1, ch), SubSeq(cur.chinfo, ch + 1, 2 * ch)>>,
          channels |-> ch]
    ELSE None

\* main_data_begin and private bits, 2 granules of ch channels, scfsi per channel.
parse_side_info_bits(bits, ch) ==
    side_info_result(
        read_fields(
            parse_channels(
                read_fields([bits |-> bits, ptr |-> 0, ok |-> TRUE,
                             vals |-> << >>, chinfo |-> << >>],
                            <<9, 3>>),
                2 * ch),
            [c \in 1..ch |-> 4]),
        ch)

parse_side_info_fields(side_info_bytes) ==
    parse_side_info_bits(bytes_to_bitlist(side_info_bytes),
                         IF Len(side_info_bytes) = 17 THEN 1 ELSE 2)

(***************************************************************************)
(* Core scanning and mapping                                               *)
(***************************************************************************)
\* An estimate that takes a frame without parsed side info to be all main data.
estimated_bits_of_unparsed_as_full(parsed) ==
    IF IsNone(parsed) THEN 8 * 1441
    ELSE SumSeq([k \in 1..(2 * parsed.channels) |->
                    Flatten(parsed.granules)[k].part2_3_length])

\* Sum of part2_3_length over the granules and channels of a parsed side info.
estimated_bits_of(parsed) ==
    IF IsNone(parsed) THEN 0
    ELSE SumSeq([k \in 1..(2 * parsed.channels) |->
                    Flatten(parsed.granules)[k].part2_3_length])

\* estimated_main_bytes: ceil(estimated_bits / 8), at most max_possible_main.
clamp_main_bytes(estimated_bits, max_possible_main) ==
    IF (estimated_bits + 7) \div 8 > max_possible_main
    THEN max_possible_main
    ELSE (estimated_bits + 7) \div 8

\* frame_dict with the main data placed directly after the header; C6 tells the
\* two apart.
frame_dict_without_side_info(cur, fidx, info, parsed, estimated_main_bytes) ==
    [frame_index |-> fidx,
     header_idx |-> cur,
     frame_start |-> cur,
     frame_size |-> info.frame_size,
     side_info_idx |-> cur + 4,
     side_info_size |-> info.side_info_size,
     main_data_idx |-> cur + 4,
     estimated_main_bytes |-> estimated_main_bytes,
     ancillary_idx |-> cur + 4 + estimated_main_bytes,
     ancillary_len |-> (cur + info.frame_size) - (cur + 4 + estimated_main_bytes),
     parsed_side_info |-> parsed]

\* The record appended for a frame at cursor cur, given its estimated_main_bytes.
frame_dict(cur, fidx, info, parsed, estimated_main_bytes) ==
    [frame_index |-> fidx,
     header_idx |-> cur,
     frame_start |-> cur,
     frame_size |-> info.frame_size,
     side_info_idx |-> cur + 4,
     side_info_size |-> info.side_info_size,
     main_data_idx |-> cur + 4 + info.side_info_size,
     estimated_main_bytes |-> estimated_main_bytes,
     ancillary_idx |-> cur + 4 + info.side_info_size + estimated_main_bytes,
     ancillary_len |-> (cur + info.frame_size)
                         - (cur + 4 + info.side_info_size + estimated_main_bytes),
     parsed_side_info |-> parsed]

\* A record that numbers frames from 1.
frame_record_from_one(cur, fidx, info, parsed) ==
    frame_dict(cur, fidx + 1, info, parsed,
               clamp_main_bytes(estimated_bits_of(parsed),
                                Max(0, (cur + info.frame_size)
                                         - (cur + 4 + info.side_info_size))))

\* The record appended for an accepted header at cursor cur with side info parsed.
frame_record(cur, fidx, info, parsed) ==
    frame_dict(cur, fidx, info, parsed,
               clamp_main_bytes(estimated_bits_of(parsed),
                                Max(0, (cur + info.frame_size)
                                         - (cur + 4 + info.side_info_size))))

\* A pass that appends the record of a frame running past the end of the buffer.
scan_header_keeping_truncated(b, st, info) ==
    IF IsNone(info) THEN [st EXCEPT !.i = st.i + 1]
    ELSE [i |-> st.i + info.frame_size,
          frame_idx |-> st.frame_idx + 1,
          results |-> Append(st.results,
                             frame_record(st.i, st.frame_idx, info,
                                 parse_side_info_fields(
                                     Slice(b, st.i + 4, st.i + 4 + info.side_info_size)))),
          done |-> st.i + info.frame_size > Len(b)]

\* The pass from "info = parse_header(header)" on.
scan_header(b, st, info) ==
    IF IsNone(info) THEN [st EXCEPT !.i = st.i + 1]
    ELSE IF st.i + info.frame_size > Len(b) THEN [st EXCEPT !.done = TRUE]
    ELSE [i |-> st.i + info.frame_size,
          frame_idx |-> st.frame_idx + 1,
          results |-> Append(st.results,
                             frame_record(st.i, st.frame_idx, info,
                                 parse_side_info_fields(
                                     Slice(b, st.i + 4, st.i + 4 + info.side_info_size)))),
          done |-> FALSE]

\* A pass that steps over the four header bytes when the sync is absent.
scan_sync_skipping_header(b, st, header) ==
    IF ~is_frame_sync(header) THEN [st EXCEPT !.i = st.i + 4]
    ELSE scan_header(b, st, parse_header(header))

\* The pass from "if not is_frame_sync(header)" on.
scan_sync(b, st, header) ==
    IF ~is_frame_sync(header) THEN [st EXCEPT !.i = st.i + 1]
    ELSE scan_header(b, st, parse_header(header))

\* One pass of "while i < n" from the loop state st = [i, frame_idx, results, done];
\* done is set by the pass that leaves the loop.
scan_iteration(b, st) ==
    IF ~(st.i < Len(b)) THEN [st EXCEPT !.done = TRUE]
    ELSE IF st.i + 4 > Len(b) THEN [st EXCEPT !.done = TRUE]
    ELSE scan_sync(b, st, Slice(b, st.i, st.i + 4))

RECURSIVE scan_loop(_, _)
scan_loop(b, st) ==
    IF st.done THEN st.results ELSE scan_loop(b, scan_iteration(b, st))

scan_frames_for_ancillary(b) ==
    scan_loop(b, [i |-> skip_id3v2(b), frame_idx |-> 0, results |-> << >>, done |-> FALSE])

(***************************************************************************)
(* Frame scrambler                                                         *)
(*                                                                         *)
(* random.seed and random.shuffle are the interpreter's generator, a       *)
(* process-wide object.  Its state is the variable random_state; the       *)
(* generator itself is stood in for by a linear congruential one: what the *)
(* scrambler relies on is that seeding fixes the state and that every draw *)
(* is a function of the state.  shuffle is CPython's: for i from len-1     *)
(* down to 1, swap x[i] with x[randbelow(i+1)].                            *)
(***************************************************************************)
random_seed(seed) == seed % 65536

random_advance(state) == (25173 * state + 13849) % 65536

\* randbelow(n) drawn from the state that random_advance has produced.
randbelow(state, n) == (state \div 16) % n

\* swap storing only one of the two elements; C9 tells the two apart.
swap_overwrite(x, a, b) == [x EXCEPT ![a] = x[b]]

swap(x, a, b) == [x EXCEPT ![a] = x[b], ![b] = x[a]]

RECURSIVE shuffle_from(_, _, _)
\* The passes i, i-1, .. 1 of shuffle (0-based i) on list x from generator state.
shuffle_from(x, state, k) ==
    IF k < 1 THEN [list |-> x, state |-> state]
    ELSE LET s1 == random_advance(state)
             j == randbelow(s1, k + 1)
         IN  shuffle_from(swap(x, k + 1, j + 1), s1, k - 1)

random_shuffle(x, state) == shuffle_from(x, state, Len(x) - 1)

\* What a call of scramble_frames_with_seed leaves: the shuffled copy (list), the
\* generator state, and the caller's list (frames), which only the copy was
\* taken of.
scramble_result(frames, shuffled) ==
    [list |-> shuffled.list, state |-> shuffled.state, frames |-> frames]

\* scramble_frames_with_seed: frames.copy(), random.seed(seed), random.shuffle.
scramble_with_state(frames, seed) ==
    scramble_result(frames, random_shuffle(frames, random_seed(seed)))

scramble_frames_with_seed(frames, seed) == scramble_with_state(frames, seed).list

(***************************************************************************)
(* Embedding / extraction helpers                                          *)
(***************************************************************************)
RECURSIVE bin_digits(_)
\* The binary digits of n >= 0, most significant first, without leading zeros.
bin_digits(n) == IF n < 2 THEN <<n>> ELSE bin_digits(n \div 2) \o <<n % 2>>

\* f"{n:032b}": the digits, left-padded with zeros to a width of at least 32.
format_032b(n) ==
    LET d == bin_digits(n)
    IN  IF Len(d) >= 32 THEN d ELSE [k \in 1..(32 - Len(d)) |-> 0] \o d

\* total_capacity_bits of embed_into_ancillary: over every frame of the list.
total_capacity_bits(frames, bits_per_byte) ==
    SumSeq([k \in 1..Len(frames) |->
               IF frames[k].ancillary_len > 0
               THEN frames[k].ancillary_len * bits_per_byte ELSE 0])

\* frames[start_frame::step]
stride(frames, start_frame, step) ==
    IF start_frame >= Len(frames) THEN << >>
    ELSE [k \in 1..(((Len(frames) - start_frame - 1) \div step) + 1) |->
             frames[start_frame + (k - 1) * step + 1]]

\* capacity_bits of embed_binary and cmd_embed.
capacity_bits(frames, bits_per_byte, step, start_frame) ==
    LET sel == stride(frames, start_frame, step)
    IN  SumSeq([k \in 1..Len(sel) |-> sel[k].ancillary_len * bits_per_byte])

\* embed_byte storing the collected bits as the whole byte; C2 tells the two apart.
embed_byte_overwrite(st, f, abs_idx, full_payload, bits_per_byte) ==
    LET bits_collected == [k \in 1..bits_per_byte |->
                              IF st.bit_idx + (k - 1) >= Len(full_payload)
                              THEN 0 ELSE full_payload[st.bit_idx + k]]
    IN  [st EXCEPT !.buf = [st.buf EXCEPT ![abs_idx + 1] =
                                bits_value(bits_collected, 0, bits_per_byte)],
                   !.bit_idx = st.bit_idx + bits_per_byte,
                   !.used = Append(st.used, <<f.frame_index, abs_idx, bits_collected>>)]

\* The body of "for b in range(ancillary_len)" for one byte: the next
\* bits_per_byte bits go into the low bits of the byte at abs_idx.
embed_byte(st, f, abs_idx, full_payload, bits_per_byte) ==
    LET orig == st.buf[abs_idx + 1]
        bits_collected == [k \in 1..bits_per_byte |->
                              IF st.bit_idx + (k - 1) >= Len(full_payload)
                              THEN 0 ELSE full_payload[st.bit_idx + k]]
        val == bits_value(bits_collected, 0, bits_per_byte)
        low == Pow2(bits_per_byte)
        newval == (orig - (orig % low)) + val
    IN  [st EXCEPT !.buf = [st.buf EXCEPT ![abs_idx + 1] = newval],
                   !.bit_idx = st.bit_idx + bits_per_byte,
                   !.used = Append(st.used, <<f.frame_index, abs_idx, bits_collected>>)]

\* embed_frame_byte writing from the start of the side-info region on; C28
\* tells the two apart.
embed_frame_byte_in_side_info(st, f, b, full_payload, bits_per_byte) ==
    IF f.side_info_idx + b >= Len(st.buf) THEN [st EXCEPT !.stop = TRUE]
    ELSE [embed_byte(st, f, f.side_info_idx + b, full_payload, bits_per_byte)
          EXCEPT !.stop = (st.bit_idx + bits_per_byte >= Len(full_payload))]

\* One pass of "for b in range(f['ancillary_len'])": st.stop is set by the pass
\* that breaks out of the loop.
embed_frame_byte(st, f, b, full_payload, bits_per_byte) ==
    IF f.ancillary_idx + b >= Len(st.buf) THEN [st EXCEPT !.stop = TRUE]
    ELSE [embed_byte(st, f, f.ancillary_idx + b, full_payload, bits_per_byte)
          EXCEPT !.stop = (st.bit_idx + bits_per_byte >= Len(full_payload))]

RECURSIVE embed_frame_bytes(_, _, _, _, _, _)
\* The passes b = lo .. hi-1 of "for b in range(f['ancillary_len'])", in order;
\* the range is halved to keep the evaluation shallow.
embed_frame_bytes(st, f, lo, hi, full_payload, bits_per_byte) ==
    IF st.stop \/ lo >= hi THEN st
    ELSE IF hi = lo + 1 THEN embed_frame_byte(st, f, lo, full_payload, bits_per_byte)
    ELSE embed_frame_bytes(
             embed_frame_bytes(st, f, lo, (lo + hi) \div 2, full_payload, bits_per_byte),
             f, (lo + hi) \div 2, hi, full_payload, bits_per_byte)

\* The frame loop after the bytes of a frame: "if bit_idx >= len(full_payload)".
RECURSIVE embed_frames(_, _, _, _, _, _, _)
embed_next_frame(st, frames, fi, full_payload, bits_per_byte, step, start_frame) ==
    IF st.bit_idx >= Len(full_payload) THEN st
    ELSE embed_frames(st, frames, fi + 1, full_payload, bits_per_byte, step, start_frame)

\* "for fi in range(start_frame, frames_count, 1)" from list position fi on.
embed_frames(st, frames, fi, full_payload, bits_per_byte, step, start_frame) ==
    IF fi >= Len(frames) THEN st
    ELSE IF (fi - start_frame) % step # 0
         THEN embed_frames(st, frames, fi + 1, full_payload, bits_per_byte, step, start_frame)
    ELSE IF frames[fi + 1].ancillary_len <= 0
         THEN embed_frames(st, frames, fi + 1, full_payload, bits_per_byte, step, start_frame)
    ELSE embed_next_frame(
             embed_frame_bytes([st EXCEPT !.stop = FALSE], frames[fi + 1], 0,
                               frames[fi + 1].ancillary_len, full_payload, bits_per_byte),
             frames, fi, full_payload, bits_per_byte, step, start_frame)

\* The capacity pre-check of embed_into_ancillary: TRUE when it raises.
payload_too_large(frames, full_payload, bits_per_byte) ==
    Len(full_payload) > total_capacity_bits(frames, bits_per_byte)

\* full_payload = length_bits + payload_bits
full_payload_of(payload_bits) == format_032b(Len(payload_bits)) \o payload_bits

\* embed_into_ancillary from the capacity check on.
embed_full_payload(buf, frames, full_payload, bits_per_byte, step, start_frame) ==
    IF payload_too_large(frames, full_payload, bits_per_byte)
    THEN [raised |-> TRUE, buf |-> buf, bit_idx |-> 0, used |-> << >>, stop |-> TRUE]
    ELSE embed_frames([raised |-> FALSE, buf |-> buf, bit_idx |-> 0, used |-> << >>,
                       stop |-> FALSE],
                      frames, start_frame, full_payload, bits_per_byte,
                      step, start_frame)

\* embed_into_ancillary: [raised, buf, bit_idx, used]; buf is the bytearray as
\* the call leaves it, also when it raises.
embed_into_ancillary(buf, frames, payload_bits, bits_per_byte, step, start_frame) ==
    embed_full_payload(buf, frames, full_payload_of(payload_bits), bits_per_byte,
                       step, start_frame)

\* payload_segment keeping the length prefix; C1 tells the two apart.
payload_segment_with_prefix(st) == st.bits

\* What extract_from_ancillary returns once it has collected st.bits.
payload_segment(st) ==
    IF st.have_length
    THEN Slice(st.bits, 32, 32 + st.payload_length)
    ELSE st.bits

\* The loop state after one more bit has been appended.  st.slots keeps, for
\* every bit appended, the offset abs_idx of the byte and the bit position k
\* of "(val >> k) & 1" it was read from.
bit_appended(st, bit, k) ==
    [st EXCEPT !.bits = Append(st.bits, bit),
               !.collected = st.collected + 1,
               !.slots = Append(st.slots, <<st.abs_idx, k>>)]

\* int(length_bits, 2) of the 32 prefix bits.  A length of 2^30 or more, which
\* no buffer here can hold, is given as 2^30: it is only compared with bit
\* counts and used as a slice bound.
prefix_length(length_bits) ==
    IF bits_value(length_bits, 0, 2) # 0 THEN Pow2(30)
    ELSE bits_value(length_bits, 2, 30)

\* "if collected == 32 and payload_length is None"
length_decoded(st) ==
    IF st.collected = 32 /\ ~st.have_length
    THEN [st EXCEPT !.have_length = TRUE,
                    !.payload_length = prefix_length(Slice(st.bits, 0, 32)),
                    !.target_bits = 32 + prefix_length(Slice(st.bits, 0, 32))]
    ELSE st

\* The two returns inside the bit loop; max_bits < 0 stands for max_bits = None.
bit_returns(st, max_bits) ==
    IF st.collected >= st.target_bits
    THEN [st EXCEPT !.returned = TRUE, !.value = payload_segment(st)]
    ELSE IF max_bits >= 0 /\ st.collected >= max_bits
    THEN [st EXCEPT !.returned = TRUE, !.value = st.bits]
    ELSE st

RECURSIVE extract_byte_bits(_, _, _, _)
\* "for k in reversed(range(bits_per_byte))" from bit k of val down to bit 0.
extract_byte_bits(st, val, k, max_bits) ==
    IF st.returned \/ k < 0 THEN st
    ELSE extract_byte_bits(
             bit_returns(length_decoded(bit_appended(st, (val \div Pow2(k)) % 2, k)),
                         max_bits),
             val, k - 1, max_bits)

\* extract_frame_byte going through the bytes of the region from the last
\* to the first; C26 tells the two apart.
extract_frame_byte_from_end(st, buf, f, b, bits_per_byte, max_bits) ==
    IF f.ancillary_idx + b >= Len(buf) THEN [st EXCEPT !.stop = TRUE]
    ELSE extract_byte_bits(
             [st EXCEPT !.abs_idx = f.ancillary_idx + f.ancillary_len - 1 - b],
             buf[f.ancillary_idx + f.ancillary_len - b] % Pow2(bits_per_byte),
             bits_per_byte - 1, max_bits)

\* One pass of "for b in range(f['ancillary_len'])": st.stop is set by the pass
\* that breaks out of the loop.
extract_frame_byte(st, buf, f, b, bits_per_byte, max_bits) ==
    IF f.ancillary_idx + b >= Len(buf) THEN [st EXCEPT !.stop = TRUE]
    ELSE extract_byte_bits([st EXCEPT !.abs_idx = f.ancillary_idx + b],
                           buf[f.ancillary_idx + b + 1] % Pow2(bits_per_byte),
                           bits_per_byte - 1, max_bits)

RECURSIVE extract_frame_bytes(_, _, _, _, _, _, _)
\* The passes b = lo .. hi-1 of "for b in range(f['ancillary_len'])", in order;
\* the range is halved to keep the evaluation shallow.
extract_frame_bytes(st, buf, f, lo, hi, bits_per_byte, max_bits) ==
    IF st.returned \/ st.stop \/ lo >= hi THEN st
    ELSE IF hi = lo + 1 THEN extract_frame_byte(st, buf, f, lo, bits_per_byte, max_bits)
    ELSE extract_frame_bytes(
             extract_frame_bytes(st, buf, f, lo, (lo + hi) \div 2, bits_per_byte, max_bits),
             buf, f, (lo + hi) \div 2, hi, bits_per_byte, max_bits)

RECURSIVE extract_frames(_, _, _, _, _, _, _, _)
\* "for fi in range(start_frame, frames_count, 1)" from list position fi on.
extract_frames(st, buf, frames, fi, bits_per_byte, step, start_frame, max_bits) ==
    IF st.returned \/ fi >= Len(frames) THEN st
    ELSE IF (fi - start_frame) % step # 0
         THEN extract_frames(st, buf, frames, fi + 1, bits_per_byte, step, start_frame, max_bits)
    ELSE IF frames[fi + 1].ancillary_len <= 0
         THEN extract_frames(st, buf, frames, fi + 1, bits_per_byte, step, start_frame, max_bits)
    ELSE extract_frames(
             extract_frame_bytes([st EXCEPT !.stop = FALSE], buf, frames[fi + 1], 0,
                                 frames[fi + 1].ancillary_len, bits_per_byte, max_bits),
             buf, frames, fi + 1, bits_per_byte, step, start_frame, max_bits)

\* What extract_from_ancillary returns from the loop state the frames leave.
extract_result(st) ==
    IF st.returned THEN st.value
    ELSE IF st.have_length /\ Len(st.bits) > 32
    THEN Slice(st.bits, 32, 32 + Min(st.payload_length, Len(st.bits) - 32))
    ELSE st.bits

\* The loop state extract_from_ancillary leaves its frame loop with.
extract_loop(buf, frames, bits_per_byte, step, start_frame, max_bits) ==
    extract_frames([bits |-> << >>, collected |-> 0, have_length |-> FALSE,
                    payload_length |-> 0, target_bits |-> 32,
                    returned |-> FALSE, value |-> << >>, stop |-> FALSE,
                    abs_idx |-> 0, slots |-> << >>],
                   buf, frames, start_frame, bits_per_byte, step,
                   start_frame, max_bits)

\* extract_from_ancillary: the bit string returned.
extract_from_ancillary(buf, frames, bits_per_byte, step, start_frame, max_bits) ==
    extract_result(extract_loop(buf, frames, bits_per_byte, step, start_frame, max_bits))

(***************************************************************************)
(* Utilities and the binary entry points                                   *)
(***************************************************************************)
\* ''.join(f"{b:08b}" for b in data)
bytes_to_bits(data) == bytes_to_bitlist(data)

\* A packing that also appends the null terminator byte of the text codec.
bits_to_bytestring_appending_terminator(bits) ==
    LET pad == (8 - (Len(bits) % 8)) % 8
        bits_padded == bits \o [k \in 1..(pad + 8) |-> 0]
    IN  [k \in 1..(Len(bits_padded) \div 8) |-> bits_value(bits_padded, 8 * (k - 1), 8)]

\* bits_to_bytestring_with_terminator: zero-pad to a byte boundary, then pack.
bits_to_bytestring_with_terminator(bits) ==
    LET pad == (8 - (Len(bits) % 8)) % 8
        bits_padded == bits \o [k \in 1..pad |-> 0]
    IN  [k \in 1..(Len(bits_padded) \div 8) |-> bits_value(bits_padded, 8 * (k - 1), 8)]

\* The frame list embed_binary and extract_binary go on with after the scan, and
\* the generator state the call leaves; seed < 0 stands for seed = None.
frames_after_seed(frames, seed, state) ==
    IF seed >= 0
    THEN scramble_with_state(frames, seed)
    ELSE [list |-> frames, state |-> state]

frames_for(buf, seed) ==
    frames_after_seed(scan_frames_for_ancillary(buf), seed, 0).list

\* embed_binary from "payload_bits = ..." on, with the frame list it has:
\* [raised, data, capacity_bits].
embed_binary_frames(input_mp3_data, frames, payload_data, bits_per_byte, step, start_frame) ==
    [raised |-> payload_too_large(frames, full_payload_of(bytes_to_bits(payload_data)),
                                  bits_per_byte),
     data |-> embed_into_ancillary(input_mp3_data, frames, bytes_to_bits(payload_data),
                                   bits_per_byte, step, start_frame).buf,
     capacity_bits |-> capacity_bits(frames, bits_per_byte, step, start_frame)]

embed_binary(input_mp3_data, payload_data, bits_per_byte, step, start_frame, seed) ==
    embed_binary_frames(input_mp3_data, frames_for(input_mp3_data, seed), payload_data,
                        bits_per_byte, step, start_frame)

extract_binary(input_mp3_data, bits_per_byte, step, start_frame, seed) ==
    bits_to_bytestring_with_terminator(
        extract_from_ancillary(input_mp3_data, frames_for(input_mp3_data, seed),
                               bits_per_byte, step, start_frame, 0 - 1))

(***************************************************************************)
(* Carriers                                                                *)
(*                                                                         *)
(* A carrier is a concatenation of segments: junk bytes, rejected headers, *)
(* tag blocks and frames.  A frame image has its 4 header bytes, a side    *)
(* info region that is zero but for the low byte of the first              *)
(* part2_3_length (side info byte 2) and the byte holding the first        *)
(* window_switching_flag (side info byte 5, bit 0x04), and one fill value  *)
(* in every byte after the side info region.                               *)
(***************************************************************************)
frame_image(b1, b2, b3, si2, si5, fill) ==
    LET hdr == <<255, b1, b2, b3>>
        info == parse_header(hdr)
    IN  [k \in 1..info.frame_size |->
            IF k <= 4 THEN hdr[k]
            ELSE IF k = 7 THEN si2
            ELSE IF k = 10 THEN si5
            ELSE IF k <= 4 + info.side_info_size THEN 0
            ELSE fill]

\* MPEG-2 Layer III, 8 kbit/s at 24 kHz, mono: 24 bytes, 3 after the side info.
FrameMono24(si2) == frame_image(243, 20, 192, si2, 0, 165)

\* The same header in stereo: the 32-byte side info is longer than the frame.
FrameStereo24 == frame_image(243, 20, 0, 0, 0, 165)

\* 8 kbit/s at 16 kHz with padding, stereo: 37 bytes, 1 after the side info.
FrameStereo37(si2) == frame_image(243, 26, 0, si2, 0, 90)

\* 16 kbit/s at 24 kHz, mono: 48 bytes, 27 after the side info.
FrameMono48(si2, fill) == frame_image(243, 36, 192, si2, 0, fill)

\* A 48-byte mono frame whose first window_switching_flag is set.
FrameMono48Switching == frame_image(243, 36, 192, 0, 4, 255)

\* 32 kbit/s at 24 kHz, mono: 96 bytes, 75 after the side info.
FrameMono96(fill) == frame_image(243, 68, 192, 0, 0, fill)

\* Sync present, layer bits 00 (reserved).
HeaderReservedLayer == <<255, 241, 20, 192>>

\* Sync present, bitrate index 0.
HeaderZeroBitrate == <<255, 243, 4, 192>>

\* Sync present, sample-rate index 3.
HeaderZeroSamplerate == <<255, 243, 28, 192>>

\* The first 6 bytes of a 48-byte frame: the frame runs past the end when last.
TruncatedFrame == <<255, 243, 36, 192, 0, 0>>

\* An ID3v2 tag header declaring size bytes of tag body (size < 128).
Id3Header(size) == <<73, 68, 51, 3, 0, 0, 0, 0, 0, size>>

RECURSIVE Concatenations(_, _)
\* The concatenations of at most n segments of S.
Concatenations(S, n) ==
    IF n = 0 THEN {<< >>}
    ELSE LET shorter == Concatenations(S, n - 1)
         IN  shorter \cup {c \o seg : c \in shorter, seg \in S}

\* Most segments a carrier of the scanner's specification is made of.
MaxScanSegs == 2

ScanSegments ==
    { <<0>>, HeaderReservedLayer, HeaderZeroBitrate, HeaderZeroSamplerate,
      FrameMono24(8), FrameStereo24, FrameStereo37(0), FrameStereo37(200),
      FrameMono48Switching, TruncatedFrame,
      Id3Header(0), Id3Header(3), Id3Header(127) }

ScanCarriers == Concatenations(ScanSegments, MaxScanSegs)

\* Most frames of a codec carrier.
MaxCodecSegs == 2

\* Frames of -12, 16 and 27 ancillary bytes.
CodecSegments == { FrameStereo24, FrameMono48(88, 0), FrameMono48(0, 255) }

\* The concatenations of codec segments, and one frame of 16 ancillary bytes
\* whose two low bits are 10.
CodecCarriers == Concatenations(CodecSegments, MaxCodecSegs) \cup {FrameMono48(88, 2)}

(***************************************************************************)
(* Calls and their outcomes                                                *)
(***************************************************************************)
NoCall == [op |-> "none"]

NoReturn == [status |-> "none"]

\* A seed argument: -1 stands for seed = None.
NoSeed == 0 - 1

(***************************************************************************)
(* The scanner, pass by pass                                               *)
(***************************************************************************)
ScanInit ==
    /\ pc = "idle"
    /\ input_mp3 \in ScanCarriers
    /\ mp3_bytes = input_mp3
    /\ i = 0
    /\ frame_idx = 0
    /\ results = << >>
    /\ frames_info = << >>
    /\ call = NoCall
    /\ ret = NoReturn
    /\ random_state = 0
    /\ seed_log = << >>

\* scan_frames_for_ancillary is entered: results = [], i = skip_id3v2(mp3_bytes).
ScanStart ==
    /\ pc = "idle"
    /\ pc' = "scanning"
    /\ i' = skip_id3v2(mp3_bytes)
    /\ frame_idx' = 0
    /\ results' = << >>
    /\ call' = [op |-> "scan_frames_for_ancillary", scan_no |-> 1, previous |-> << >>]
    /\ UNCHANGED <<seed_log, input_mp3, mp3_bytes, frames_info, ret, random_state>>

\* One pass of the while loop; the pass that leaves the loop returns results.
ScanStep ==
    /\ pc = "scanning"
    /\ \E st \in {scan_iteration(mp3_bytes, [i |-> i, frame_idx |-> frame_idx,
                                             results |-> results, done |-> FALSE])} :
           /\ i' = st.i
           /\ frame_idx' = st.frame_idx
           /\ results' = st.results
           /\ pc' = IF st.done THEN "scanned" ELSE "scanning"
           /\ frames_info' = IF st.done THEN st.results ELSE frames_info
           /\ ret' = IF st.done THEN [status |-> "returned"] ELSE ret
    /\ UNCHANGED <<seed_log, input_mp3, mp3_bytes, call, random_state>>

\* scan_frames_for_ancillary is entered a second time on the same buffer; the
\* list the first call returned is kept in call.previous.
ScanAgain ==
    /\ pc = "scanned"
    /\ call.scan_no = 1
    /\ pc' = "scanning"
    /\ i' = skip_id3v2(mp3_bytes)
    /\ frame_idx' = 0
    /\ results' = << >>
    /\ call' = [op |-> "scan_frames_for_ancillary", scan_no |-> 2, previous |-> frames_info]
    /\ ret' = NoReturn
    /\ UNCHANGED <<seed_log, input_mp3, mp3_bytes, frames_info, random_state>>

ScanNext == ScanStart \/ ScanStep \/ ScanAgain

SpecScan == ScanInit /\ [][ScanNext]_vars

\* The loop is sequential code: a pass that can run does run.  This is weak
\* fairness of ScanStep with its enabling condition written out: every pass
\* changes the cursor or leaves the loop, so a pass is enabled exactly when
\* pc = "scanning".
SpecScanFair == SpecScan /\ ([]<>(pc # "scanning") \/ []<><<ScanStep>>_vars)

(***************************************************************************)
(* The codec: embed_into_ancillary, then extract_from_ancillary            *)
(***************************************************************************)
\* Most bits of a payload bit string.
MaxPayloadBits == 2

\* Most bytes of a binary payload.
MaxPayloadBytes == 1

\* Largest step.
MaxStep == 2

\* Largest start_frame.
MaxStartFrame == 1

BitStrings(n) == UNION {[1..k -> {0, 1}] : k \in 0..n}

ByteStrings(n) == UNION {[1..k -> {0, 165}] : k \in 0..n}

CodecSeeds == {NoSeed, 5}

CodecInit ==
    /\ pc = "idle"
    /\ input_mp3 \in CodecCarriers
    /\ mp3_bytes = input_mp3
    /\ i = 0
    /\ frame_idx = 0
    /\ results = << >>
    /\ frames_info = << >>
    /\ call = NoCall
    /\ ret = NoReturn
    /\ random_state = 0
    /\ seed_log = << >>

\* The carrier is scanned, the frame list scrambled when a seed is given, and
\* embed_into_ancillary called on a bytearray copy of the carrier.  results is
\* the list the scanner returned, frames_info the list the codec is given.
EmbedIntoAncillary ==
    /\ pc = "idle"
    /\ \E scanned \in {scan_frames_for_ancillary(input_mp3)}, seed \in CodecSeeds :
         \E sc \in {frames_after_seed(scanned, seed, random_state)},
            bits_per_byte \in 1..4, step \in 1..MaxStep, start_frame \in 0..MaxStartFrame,
            payload_bits \in BitStrings(MaxPayloadBits) :
           \E r \in {embed_into_ancillary(input_mp3, sc.list, payload_bits,
                                          bits_per_byte, step, start_frame)} :
             /\ call' = [op |-> "embed_into_ancillary", bits_per_byte |-> bits_per_byte,
                         step |-> step, start_frame |-> start_frame, seed |-> seed,
                         payload_bits |-> payload_bits]
             /\ results' = scanned
             /\ frames_info' = sc.list
             /\ random_state' = sc.state
             /\ mp3_bytes' = r.buf
             /\ ret' = IF r.raised
                       THEN [status |-> "raised", error |-> "ValueError"]
                       ELSE [status |-> "returned", bit_idx |-> r.bit_idx, used |-> r.used]
    /\ pc' = "embedded"
    /\ UNCHANGED <<seed_log, input_mp3, i, frame_idx>>

\* embed_binary; capacity_bits is the capacity it prints before embedding.
EmbedBinary ==
    /\ pc = "idle"
    /\ \E scanned \in {scan_frames_for_ancillary(input_mp3)}, seed \in CodecSeeds :
         \E sc \in {frames_after_seed(scanned, seed, random_state)},
            bits_per_byte \in 1..4, step \in 1..MaxStep, start_frame \in 0..MaxStartFrame,
            payload_data \in ByteStrings(MaxPayloadBytes) :
           \E r \in {embed_binary_frames(input_mp3, sc.list, payload_data,
                                         bits_per_byte, step, start_frame)} :
             /\ call' = [op |-> "embed_binary", bits_per_byte |-> bits_per_byte,
                         step |-> step, start_frame |-> start_frame, seed |-> seed,
                         payload_bits |-> bytes_to_bits(payload_data),
                         payload_data |-> payload_data]
             /\ results' = scanned
             /\ frames_info' = sc.list
             /\ random_state' = sc.state
             /\ mp3_bytes' = r.data
             /\ ret' = IF r.raised
                       THEN [status |-> "raised", error |-> "ValueError",
                             capacity_bits |-> r.capacity_bits]
                       ELSE [status |-> "returned", capacity_bits |-> r.capacity_bits]
    /\ pc' = "embedded"
    /\ UNCHANGED <<seed_log, input_mp3, i, frame_idx>>

\* extract_from_ancillary on the buffer embed returned, same frame list and
\* plan; ret.slots is the byte offset and bit position every bit was read from.
ExtractFromAncillary ==
    /\ pc = "embedded"
    /\ ret.status = "returned"
    /\ \E st \in {extract_loop(mp3_bytes, frames_info, call.bits_per_byte,
                                call.step, call.start_frame, 0 - 1)} :
         ret' = [status |-> "returned", value |-> extract_result(st),
                 slots |-> st.slots]
    /\ pc' = "extracted"
    /\ UNCHANGED <<seed_log, input_mp3, mp3_bytes, i, frame_idx, results, frames_info, call,
                   random_state>>

\* extract_binary on the buffer embed_binary returned, with the same
\* bits_per_byte, step, start_frame and seed: the buffer is scanned again and
\* the frame list scrambled again.
ExtractBinary ==
    /\ pc = "embedded"
    /\ call.op = "embed_binary"
    /\ ret.status = "returned"
    /\ \E sc \in {frames_after_seed(scan_frames_for_ancillary(mp3_bytes), call.seed,
                                     random_state)} :
         /\ frames_info' = sc.list
         /\ random_state' = sc.state
         /\ ret' = [status |-> "returned",
                    data |-> bits_to_bytestring_with_terminator(
                                extract_from_ancillary(mp3_bytes, sc.list, call.bits_per_byte,
                                                       call.step, call.start_frame, 0 - 1))]
    /\ call' = [call EXCEPT !.op = "extract_binary"]
    /\ pc' = "binary_extracted"
    /\ UNCHANGED <<seed_log, input_mp3, mp3_bytes, i, frame_idx, results>>

\* extract_from_ancillary on a carrier nothing was embedded into, with the
\* scanned frame list, scrambled when a seed is given.
ExtractFromCarrier ==
    /\ pc = "idle"
    /\ \E scanned \in {scan_frames_for_ancillary(input_mp3)}, seed \in CodecSeeds :
         \E sc \in {frames_after_seed(scanned, seed, random_state)},
            bits_per_byte \in 1..4, step \in 1..MaxStep, start_frame \in 0..MaxStartFrame :
             /\ call' = [op |-> "extract_from_ancillary", bits_per_byte |-> bits_per_byte,
                         step |-> step, start_frame |-> start_frame, seed |-> seed,
                         payload_bits |-> << >>]
             /\ results' = scanned
             /\ frames_info' = sc.list
             /\ random_state' = sc.state
             /\ ret' = [status |-> "returned",
                        value |-> extract_from_ancillary(input_mp3, sc.list, bits_per_byte,
                                                         step, start_frame, 0 - 1)]
    /\ pc' = "carrier_extracted"
    /\ UNCHANGED <<seed_log, input_mp3, mp3_bytes, i, frame_idx>>

CodecNext ==
    \/ EmbedIntoAncillary
    \/ EmbedBinary
    \/ ExtractFromAncillary
    \/ ExtractBinary
    \/ ExtractFromCarrier

SpecCodec == CodecInit /\ [][CodecNext]_vars

\* The two embedding entry points alone, on the carriers of the codec.
EmbedNext == EmbedIntoAncillary \/ EmbedBinary

SpecEmbed == CodecInit /\ [][EmbedNext]_vars

(***************************************************************************)
(* The scrambler on scanned frame lists                                    *)
(***************************************************************************)
\* Most frames of a carrier of the scrambler's specification.
MaxScrambleFrames == 4

\* Largest seed.
MaxSeed == 7

ScrambleCarriers == Concatenations({FrameMono24(0), FrameStereo24}, MaxScrambleFrames)

ScrambleInit ==
    /\ pc = "idle"
    /\ input_mp3 \in ScrambleCarriers
    /\ mp3_bytes = input_mp3
    /\ i = 0
    /\ frame_idx = 0
    /\ results = << >>
    /\ frames_info = << >>
    /\ call = NoCall
    /\ ret = NoReturn
    /\ random_state = 0
    /\ seed_log = << >>

\* frames = scan_frames_for_ancillary(mp3)
ScanFrames ==
    /\ pc = "idle"
    /\ results' = scan_frames_for_ancillary(input_mp3)
    /\ pc' = "scanned"
    /\ UNCHANGED <<seed_log, input_mp3, mp3_bytes, i, frame_idx, frames_info, call, ret,
                   random_state>>

\* scramble_frames_with_seed(frames, seed): results is the caller's list,
\* frames_info the list returned.
ScrambleFrames ==
    /\ pc = "scanned"
    /\ \E seed \in 0..MaxSeed :
         \E r \in {scramble_with_state(results, seed)} :
            /\ call' = [op |-> "scramble_frames_with_seed", frames |-> results,
                        seed |-> seed]
            /\ results' = r.frames
            /\ frames_info' = r.list
            /\ random_state' = r.state
            /\ ret' = [status |-> "returned", value |-> r.list]
    /\ pc' = "scrambled"
    /\ UNCHANGED <<seed_log, input_mp3, mp3_bytes, i, frame_idx>>

ScrambleNext == ScanFrames \/ ScrambleFrames

SpecScramble == ScrambleInit /\ [][ScrambleNext]_vars

(***************************************************************************)
(* The side-info parser on its own                                         *)
(***************************************************************************)
\* Most values of part2_3_length tried in a built region, counted from 1.
MaxFieldValues == 2

\* The width bits of value, most significant first.
field_bits(value, width) == [k \in 1..width |-> (value \div Pow2(width - k)) % 2]

\* The bits of one granule/channel block as the parser reads it: part2_3_length,
\* 21 bits of big_values, global_gain and scalefac_compress, the
\* window_switching_flag, and the 34 or 25 bits read after it.
block_bits(part2_3_length, flag) ==
    field_bits(part2_3_length, 12) \o field_bits(1398101, 21) \o <<flag>>
        \o [k \in 1..(IF flag = 1 THEN 34 ELSE 25) |-> k % 2]

\* A region of size bytes: 12 bits, one block for each flag, scfsi bits, zero
\* padding; what does not fit in size bytes is cut off.
built_region(flags, part2_3_length, size) ==
    LET bits == field_bits(2730, 12)
                   \o Flatten([k \in 1..Len(flags) |->
                                  block_bits((part2_3_length * k) % 4096, flags[k])])
                   \o [k \in 1..(8 * size) |-> 0]
    IN  [k \in 1..size |-> bits_value(bits, 8 * (k - 1), 8)]

\* The values of part2_3_length put in built regions.
FieldValues == {(1365 * v) % 4096 : v \in 1..MaxFieldValues}

\* Regions of every size around 17 and 32 bytes filled with one byte value, and
\* built regions of 17 bytes (2 blocks) and 32 bytes (4 blocks) for every
\* combination of the window_switching_flag bits.
SideInfoRegions ==
    {[k \in 1..size |-> fill] : size \in {0, 1, 16, 17, 18, 31, 32, 33},
                                fill \in {0, 4, 165, 255}}
    \cup {built_region(flags, v, 17) : flags \in [1..2 -> {0, 1}], v \in FieldValues}
    \cup {built_region(flags, v, 32) : flags \in [1..4 -> {0, 1}], v \in FieldValues}

SideInfoInit ==
    /\ pc = "idle"
    /\ input_mp3 \in SideInfoRegions
    /\ mp3_bytes = input_mp3
    /\ i = 0
    /\ frame_idx = 0
    /\ results = << >>
    /\ frames_info = << >>
    /\ call = NoCall
    /\ ret = NoReturn
    /\ random_state = 0
    /\ seed_log = << >>

\* parse_side_info_fields(side_info_bytes); it returns a dict or None and
\* raises nothing.
ParseSideInfoFields ==
    /\ pc = "idle"
    /\ call' = [op |-> "parse_side_info_fields"]
    /\ ret' = [status |-> "returned", value |-> parse_side_info_fields(input_mp3)]
    /\ pc' = "parsed"
    /\ UNCHANGED <<seed_log, input_mp3, mp3_bytes, i, frame_idx, results, frames_info,
                   random_state>>

SideInfoNext == ParseSideInfoFields

SpecSideInfo == SideInfoInit /\ [][SideInfoNext]_vars

(***************************************************************************)
(* cipher.py                                                               *)
(***************************************************************************)
\* key = b"ilovedota2"
key == <<105, 108, 111, 118, 101, 100, 111, 116, 97, 50>>

ZeroDivisionError == [raised |-> TRUE, error |-> "ZeroDivisionError"]

\* vignereCipher: key[i % key_length] divides by zero on the first byte of a
\* non-empty input when the key is empty.
vignereCipher(input, k) ==
    IF Len(input) > 0 /\ Len(k) = 0 THEN ZeroDivisionError
    ELSE [raised |-> FALSE,
          value |-> [n \in 1..Len(input) |->
                        (input[n] + k[((n - 1) % Len(k)) + 1]) % 256]]

vignereDecipher(input, k) ==
    IF Len(input) > 0 /\ Len(k) = 0 THEN ZeroDivisionError
    ELSE [raised |-> FALSE,
          value |-> [n \in 1..Len(input) |->
                        (input[n] - k[((n - 1) % Len(k)) + 1]) % 256]]

\* The UTF-8 bytes of one code point.
utf8_bytes(cp) ==
    IF cp < 128 THEN <<cp>>
    ELSE IF cp < 2048 THEN <<192 + (cp \div 64), 128 + (cp % 64)>>
    ELSE IF cp < 65536
    THEN <<224 + (cp \div 4096), 128 + ((cp \div 64) % 64), 128 + (cp % 64)>>
    ELSE <<240 + (cp \div 262144), 128 + ((cp \div 4096) % 64),
           128 + ((cp \div 64) % 64), 128 + (cp % 64)>>

\* str.encode(): a string is the sequence of its code points.
encode(text) == Flatten([n \in 1..Len(text) |-> utf8_bytes(text[n])])

generateKey(text) == vignereCipher(encode(text), key).value

\* generateSeed without the final squaring; C10 tells the two apart.
generateSeed_sum(text) == SumSeq(text)

generateSeed(text) == SumSeq(text) * SumSeq(text)

(***************************************************************************)
(* Calls of the cipher                                                     *)
(***************************************************************************)
\* Most bytes of a text handed to vignereCipher.
MaxTextLen == 2

\* Most evaluations of generateSeed(generateKey(pw)) in a behaviour.
MaxEvaluations == 2

\* "", "pw", "e-acute" and "steganogram"
Passphrases ==
    { << >>, <<112, 119>>, <<233>>,
      <<115, 116, 101, 103, 97, 110, 111, 103, 114, 97, 109>> }

CipherTexts == UNION {[1..n -> {0, 200, 255}] : n \in 0..MaxTextLen}

CipherKeys == {generateKey(pw) : pw \in Passphrases} \cup {<<1>>, <<255, 2>>}

CipherInit ==
    /\ pc = "idle"
    /\ input_mp3 = << >>
    /\ mp3_bytes = << >>
    /\ i = 0
    /\ frame_idx = 0
    /\ results = << >>
    /\ frames_info = << >>
    /\ call = NoCall
    /\ ret = NoReturn
    /\ random_state = 0
    /\ seed_log = << >>

\* One evaluation of generateSeed(generateKey(pw)).
EvaluateSeed ==
    /\ Len(seed_log) < MaxEvaluations
    /\ \E pw \in Passphrases :
         seed_log' = Append(seed_log, [pw |-> pw,
                                       generated_key |-> generateKey(pw),
                                       seed |-> generateSeed(generateKey(pw))])
    /\ UNCHANGED <<pc, input_mp3, mp3_bytes, i, frame_idx, results, frames_info, call,
                   ret, random_state>>

CallVignereCipher ==
    /\ pc = "idle"
    /\ \E input \in CipherTexts, k \in CipherKeys :
         \E r \in {vignereCipher(input, k)} :
            /\ call' = [op |-> "vignereCipher", input |-> input, key |-> k]
            /\ ret' = IF r.raised THEN [status |-> "raised", error |-> r.error]
                      ELSE [status |-> "returned", value |-> r.value]
    /\ pc' = "ciphered"
    /\ UNCHANGED <<seed_log, input_mp3, mp3_bytes, i, frame_idx, results, frames_info,
                   random_state>>

\* vignereDecipher on what vignereCipher returned, with the same key.
CallVignereDecipher ==
    /\ pc = "ciphered"
    /\ ret.status = "returned"
    /\ \E r \in {vignereDecipher(ret.value, call.key)} :
         /\ call' = [op |-> "vignereDecipher", input |-> ret.value, key |-> call.key,
                     plain |-> call.input]
         /\ ret' = IF r.raised THEN [status |-> "raised", error |-> r.error]
                   ELSE [status |-> "returned", value |-> r.value]
    /\ pc' = "deciphered"
    /\ UNCHANGED <<seed_log, input_mp3, mp3_bytes, i, frame_idx, results, frames_info,
                   random_state>>

CipherNext == EvaluateSeed \/ CallVignereCipher \/ CallVignereDecipher

SpecCipher == CipherInit /\ [][CipherNext]_vars

(***************************************************************************)
(* main_pipeline.py                                                        *)
(*                                                                         *)
(* A str is the sequence of its code points; a str that may be None is     *)
(* None or [text |-> str].                                                 *)
(***************************************************************************)
Str(text) == [text |-> text]

\* json.dumps of the embedded config, encoded: the dict's four keys in insertion
\* order, ", " and ": " as separators.  fn is made of characters json.dumps
\* leaves unescaped.
json_bool(v) == IF v THEN <<116, 114, 117, 101>> ELSE <<102, 97, 108, 115, 101>>

json_dumps(embbedded_config) ==
    <<123, 34, 102, 110, 34, 58, 32, 34>> \o embbedded_config.fn \o <<34>>
       \o <<44, 32, 34, 101, 110, 34, 58, 32>> \o json_bool(embbedded_config.en)
       \o <<44, 32, 34, 114, 101, 34, 58, 32>> \o json_bool(embbedded_config.re)
       \o <<44, 32, 34, 108, 115, 34, 58, 32>> \o <<48 + embbedded_config.ls>>
       \o <<125>>

\* File names of the embedded file: "a" and "s.py"
FileNames == { <<97>>, <<115, 46, 112, 121>> }

\* The embedded configs the pipeline writes.
EmbeddedConfigs == [fn : FileNames, en : BOOLEAN, re : BOOLEAN, ls : 1..4]

\* json.loads(config_json.decode("utf-8")) on the byte strings decrypt meets
\* here: the text json_dumps wrote gives the dict back; the other byte strings
\* are ciphered images of such a text or cuts of one, which json.loads or
\* decode rejects (both errors are ValueError).
json_loads(config_json) ==
    IF \E c \in EmbeddedConfigs : json_dumps(c) = config_json
    THEN [raised |-> FALSE,
          value |-> CHOOSE c \in EmbeddedConfigs : json_dumps(c) = config_json]
    ELSE [raised |-> TRUE, error |-> "ValueError"]

\* struct.pack(">I", n)
struct_pack_I(n) ==
    <<(n \div 16777216) % 256, (n \div 65536) % 256, (n \div 256) % 256, n % 256>>

\* struct.unpack(">I", b)[0] for a buffer of at least 4 bytes.  The value is only
\* used as a slice bound: from 2^30 on, beyond every buffer length, it is
\* stood for by 2^30, which the evaluator's integers hold.
struct_unpack_I(b) ==
    IF b[1] >= 64 THEN 1073741824
    ELSE ((b[1] * 256 + b[2]) * 256 + b[3]) * 256 + b[4]

RECURSIVE squared_error(_, _, _, _)
\* The sum of diff * diff over the offsets lo-1 .. hi-1.
squared_error(original_data, embedded_data, lo, hi) ==
    IF lo > hi THEN 0
    ELSE IF lo = hi
    THEN (original_data[lo] - embedded_data[lo]) * (original_data[lo] - embedded_data[lo])
    ELSE squared_error(original_data, embedded_data, lo, (lo + hi) \div 2)
           + squared_error(original_data, embedded_data, ((lo + hi) \div 2) + 1, hi)

\* calculate_psnr; the float it returns is a function of the summed squared
\* error and the length, which stand for it here (infinite: mse = 0).
calculate_psnr(original_data, embedded_data) ==
    IF Len(original_data) # Len(embedded_data) \/ Len(original_data) = 0
    THEN [raised |-> TRUE, error |-> "ValueError"]
    ELSE [raised |-> FALSE,
          squared_error |-> squared_error(original_data, embedded_data, 1,
                                          Len(original_data)),
          length |-> Len(original_data)]

\* encrypt from "psnr_value = calculate_psnr(...)" on; embedded is what
\* embed_binary gave.
encrypt_return(audio_data, embedded) ==
    IF embedded.raised THEN [raised |-> TRUE, error |-> "ValueError"]
    ELSE [raised |-> FALSE,
          result |-> embedded.data,
          psnr_value |-> calculate_psnr(audio_data, embedded.data)]

\* encrypt from "result = ad.embed_binary(...)" on.
encrypt_embed(audio_data, final_payload, lsbBits, seed) ==
    encrypt_return(audio_data, embed_binary(audio_data, final_payload, lsbBits, 1, 0, seed))

\* encrypt_seed taking the seed from the passphrase instead of the generated
\* key; C27 tells the two apart.
encrypt_seed_of_passphrase(config) ==
    IF IsNone(config.encryptionKey) \/ ~config.randomEmbedding THEN NoSeed
    ELSE generateSeed(encode(config.encryptionKey.text))

\* The seed encrypt hands to embed_binary, NoSeed when it hands None or raises
\* before the call.
encrypt_seed(config) ==
    IF IsNone(config.encryptionKey) \/ ~config.randomEmbedding THEN NoSeed
    ELSE IF Len(generateKey(config.encryptionKey.text)) = 0 THEN NoSeed
    ELSE generateSeed(generateKey(config.encryptionKey.text))

\* The seed decrypt hands to extract_binary.
decrypt_seed(k, is_scrambled) ==
    IF is_scrambled /\ ~IsNone(k) THEN generateSeed(generateKey(k.text)) ELSE NoSeed

\* encrypt from "if config['randomEmbedding']" on, for a config with a key;
\* ciphered is what vignereCipher gave.
encrypt_ciphered(config, audio_data, ciphered, generated_key) ==
    IF ciphered.raised THEN [raised |-> TRUE, error |-> "ZeroDivisionError"]
    ELSE encrypt_embed(audio_data, ciphered.value, config.lsbBits, encrypt_seed(config))

\* encrypt from "seed = None" on, for a config with a key.
encrypt_with_key(config, audio_data, payload_data, generated_key) ==
    encrypt_ciphered(config, audio_data, vignereCipher(payload_data, generated_key),
                     generated_key)

\* encrypt from "seed = None" on, for a config without one: generated_key is
\* unbound when randomEmbedding asks for it.
encrypt_without_key(config, audio_data, payload_data) ==
    IF config.randomEmbedding
    THEN [raised |-> TRUE, error |-> "UnboundLocalError"]
    ELSE encrypt_embed(audio_data, payload_data, config.lsbBits, NoSeed)

\* embbedded_config of encrypt.
embedded_config_of(config) ==
    [fn |-> config.embeddedFileName, en |-> config.useEncryption,
     re |-> config.randomEmbedding, ls |-> config.lsbBits]

\* payload_data = config_len_bytes + embbedded_config_json + embed_data
payload_data_of(embbedded_config_json, embed_data) ==
    struct_pack_I(Len(embbedded_config_json)) \o embbedded_config_json \o embed_data

encrypt(config, audio_data, embed_data) ==
    IF IsNone(config.encryptionKey)
    THEN encrypt_without_key(config, audio_data,
                             payload_data_of(json_dumps(embedded_config_of(config)),
                                             embed_data))
    ELSE encrypt_with_key(config, audio_data,
                          payload_data_of(json_dumps(embedded_config_of(config)),
                                          embed_data),
                          generateKey(config.encryptionKey.text))

\* decrypt from "config = json.loads(...)" on; loaded is what json.loads gave.
decrypt_return(decrypted_payload, config_length, loaded) ==
    IF loaded.raised THEN [raised |-> TRUE, error |-> "ValueError"]
    ELSE [raised |-> FALSE,
          config |-> loaded.value,
          extracted_data |-> Slice(decrypted_payload, 4 + config_length,
                                   Len(decrypted_payload))]

\* decrypt from "config_json = ..." on.
decrypt_config(decrypted_payload, config_length) ==
    decrypt_return(decrypted_payload, config_length,
                   json_loads(Slice(decrypted_payload, 4, 4 + config_length)))

\* decrypt from "config_length = struct.unpack(...)" on.
decrypt_payload(decrypted_payload) ==
    IF Len(decrypted_payload) < 4 THEN [raised |-> TRUE, error |-> "struct.error"]
    ELSE decrypt_config(decrypted_payload, struct_unpack_I(decrypted_payload))

\* decrypt after vignereDecipher; deciphered is what it gave.
decrypt_deciphered(deciphered) ==
    IF deciphered.raised THEN [raised |-> TRUE, error |-> "ZeroDivisionError"]
    ELSE decrypt_payload(deciphered.value)

\* decrypt from "if is_encrypted and key is not None" on.
decrypt_result(result, k, is_encrypted) ==
    IF is_encrypted /\ ~IsNone(k)
    THEN decrypt_deciphered(vignereDecipher(result, generateKey(k.text)))
    ELSE decrypt_payload(result)

decrypt(audio_data, k, is_scrambled, is_encrypted, bits_per_byte) ==
    decrypt_result(extract_binary(audio_data, bits_per_byte, 1, 0,
                                  decrypt_seed(k, is_scrambled)),
                   k, is_encrypted)

\* The key the /decrypt handler of main.py hands to decrypt.
handler_key(k, use_encryption, random_embedding) ==
    IF ~IsNone(k) /\ Len(k.text) > 0 /\ (use_encryption \/ random_embedding)
    THEN k ELSE None

(***************************************************************************)
(* The pipeline: encrypt, then decrypt                                     *)
(***************************************************************************)
\* Most frames of a carrier of the pipeline's specification.
MaxPipelineFrames == 6

\* Most bytes of the embedded file.
MaxSecretLen == 1

RECURSIVE Repeat(_, _)
Repeat(s, n) == IF n = 0 THEN << >> ELSE s \o Repeat(s, n - 1)

\* No frame, two frames and MaxPipelineFrames frames of 75 ancillary bytes.
PipelineCarriers == {Repeat(FrameMono96(90), n) : n \in {0, 2, MaxPipelineFrames}}

\* No key, "" and "pw"
EncryptionKeys == {None, Str(<< >>), Str(<<112, 119>>)}

Configs ==
    [embeddedFileName : FileNames, useEncryption : BOOLEAN, randomEmbedding : BOOLEAN,
     lsbBits : 1..4, encryptionKey : EncryptionKeys]

\* The generator state after embed_binary or extract_binary has run on buf with seed.
random_state_after(state, buf, seed) ==
    frames_after_seed(scan_frames_for_ancillary(buf), seed, state).state

PipelineInit ==
    /\ pc = "idle"
    /\ input_mp3 \in PipelineCarriers
    /\ mp3_bytes = input_mp3
    /\ i = 0
    /\ frame_idx = 0
    /\ results = << >>
    /\ frames_info = << >>
    /\ call = NoCall
    /\ ret = NoReturn
    /\ random_state = 0
    /\ seed_log = << >>

\* encrypt(config, audio_data, embed_data); mp3_bytes is the carrier it returns
\* and call.seed the seed argument of its call of embed_binary.
Encrypt ==
    /\ pc = "idle"
    /\ \E config \in Configs, embed_data \in ByteStrings(MaxSecretLen) :
         \E r \in {encrypt(config, input_mp3, embed_data)} :
            /\ call' = [op |-> "encrypt", config |-> config, embed_data |-> embed_data,
                        seed |-> encrypt_seed(config)]
            /\ mp3_bytes' = IF r.raised THEN input_mp3 ELSE r.result
            /\ ret' = IF r.raised THEN [status |-> "raised", error |-> r.error]
                      ELSE [status |-> "returned", psnr_value |-> r.psnr_value]
            /\ random_state' = random_state_after(random_state, input_mp3,
                                                  encrypt_seed(config))
    /\ pc' = "encrypted"
    /\ UNCHANGED <<seed_log, input_mp3, i, frame_idx, results, frames_info>>

\* decrypt on the carrier encrypt returned, with the flags and lsbBits of its
\* config and either the key of the config or the key the handler of main.py
\* makes of it; call.seed is the seed argument of its call of extract_binary
\* and call.encrypt_seed the one encrypt gave embed_binary.
Decrypt ==
    /\ pc = "encrypted"
    /\ ret.status = "returned"
    /\ \E k \in {call.config.encryptionKey,
                 handler_key(call.config.encryptionKey, call.config.useEncryption,
                             call.config.randomEmbedding)} :
         \E r \in {decrypt(mp3_bytes, k, call.config.randomEmbedding,
                           call.config.useEncryption, call.config.lsbBits)} :
            /\ call' = [op |-> "decrypt", key |-> k, config |-> call.config,
                        embed_data |-> call.embed_data,
                        seed |-> decrypt_seed(k, call.config.randomEmbedding),
                        encrypt_seed |-> call.seed]
            /\ ret' = IF r.raised THEN [status |-> "raised", error |-> r.error]
                      ELSE [status |-> "returned", config |-> r.config,
                            extracted_data |-> r.extracted_data]
            /\ random_state' = random_state_after(random_state, mp3_bytes,
                                                  decrypt_seed(k, call.config.randomEmbedding))
    /\ pc' = "decrypted"
    /\ UNCHANGED <<seed_log, input_mp3, mp3_bytes, i, frame_idx, results, frames_info>>

\* Whole frames a carrier file cut short on its way to decrypt still has.
KeptFrames == {0, 2, 3}

\* decrypt on the first kept frames of the carrier encrypt returned, with the
\* flags and the key of the config.
DecryptTruncated ==
    /\ pc = "encrypted"
    /\ ret.status = "returned"
    /\ \E kept \in KeptFrames :
         /\ kept * Len(FrameMono96(90)) < Len(mp3_bytes)
         /\ \E audio_data \in {Slice(mp3_bytes, 0, kept * Len(FrameMono96(90)))} :
              \E r \in {decrypt(audio_data, call.config.encryptionKey,
                                call.config.randomEmbedding, call.config.useEncryption,
                                call.config.lsbBits)} :
                 /\ call' = [op |-> "decrypt", key |-> call.config.encryptionKey,
                             config |-> call.config, embed_data |-> call.embed_data,
                             audio_data |-> audio_data]
                 /\ ret' = IF r.raised THEN [status |-> "raised", error |-> r.error]
                           ELSE [status |-> "returned", config |-> r.config,
                                 extracted_data |-> r.extracted_data]
                 /\ random_state' = random_state_after(
                                        random_state, audio_data,
                                        decrypt_seed(call.config.encryptionKey,
                                                     call.config.randomEmbedding))
    /\ pc' = "truncated_decrypted"
    /\ UNCHANGED <<seed_log, input_mp3, mp3_bytes, i, frame_idx, results, frames_info>>

PipelineNext == Encrypt \/ Decrypt \/ DecryptTruncated

SpecPipeline == PipelineInit /\ [][PipelineNext]_vars

(***************************************************************************)
(* Two requests scrambling at once                                         *)
(*                                                                         *)
(* main.py serves each request in a thread of its own; both threads call   *)
(* scramble_frames_with_seed, whose random.seed and random.shuffle work on *)
(* the one generator of the process.  Here pc, call, frames_info, i and    *)
(* ret hold one value per request; a thread switch may fall between any    *)
(* two statements and between two passes of the shuffle loop.              *)
(***************************************************************************)
\* Frames of the carrier both requests bring.
RequestFrames == 3

\* Largest seed of a request.
MaxRequestSeed == 3

Requests == {1, 2}

RequestInit ==
    /\ pc = [p \in Requests |-> "idle"]
    /\ input_mp3 = Repeat(FrameMono24(0), RequestFrames)
    /\ mp3_bytes = input_mp3
    /\ i = [p \in Requests |-> 0]
    /\ frame_idx = 0
    /\ results = scan_frames_for_ancillary(input_mp3)
    /\ frames_info = [p \in Requests |-> << >>]
    /\ call = [p \in Requests |-> NoCall]
    /\ ret = [p \in Requests |-> NoReturn]
    /\ random_state = 0
    /\ seed_log = << >>

\* scrambled_frames = frames_info.copy()
RequestCopy(p) ==
    /\ pc[p] = "idle"
    /\ \E seed \in 0..MaxRequestSeed :
         call' = [call EXCEPT ![p] = [op |-> "scramble_frames_with_seed",
                                      frames |-> results, seed |-> seed]]
    /\ frames_info' = [frames_info EXCEPT ![p] = results]
    /\ pc' = [pc EXCEPT ![p] = "copied"]
    /\ UNCHANGED <<seed_log, input_mp3, mp3_bytes, i, frame_idx, results, ret,
                   random_state>>

\* random.seed(seed)
RequestSeed(p) ==
    /\ pc[p] = "copied"
    /\ random_state' = random_seed(call[p].seed)
    /\ i' = [i EXCEPT ![p] = Len(frames_info[p]) - 1]
    /\ pc' = [pc EXCEPT ![p] = "seeded"]
    /\ UNCHANGED <<seed_log, input_mp3, mp3_bytes, frame_idx, results, frames_info,
                   call, ret>>

\* One pass of random.shuffle: draw j below i + 1, swap x[i] and x[j].
RequestShufflePass(p) ==
    /\ pc[p] = "seeded"
    /\ i[p] >= 1
    /\ random_state' = random_advance(random_state)
    /\ frames_info' = [frames_info EXCEPT ![p] =
                          swap(frames_info[p], i[p] + 1,
                               randbelow(random_advance(random_state), i[p] + 1) + 1)]
    /\ i' = [i EXCEPT ![p] = i[p] - 1]
    /\ UNCHANGED <<seed_log, pc, input_mp3, mp3_bytes, frame_idx, results, call, ret>>

\* return scrambled_frames
RequestReturn(p) ==
    /\ pc[p] = "seeded"
    /\ i[p] < 1
    /\ ret' = [ret EXCEPT ![p] = [status |-> "returned", value |-> frames_info[p]]]
    /\ pc' = [pc EXCEPT ![p] = "done"]
    /\ UNCHANGED <<seed_log, input_mp3, mp3_bytes, i, frame_idx, results, frames_info,
                   call, random_state>>

RequestNext ==
    \E p \in Requests :
        RequestCopy(p) \/ RequestSeed(p) \/ RequestShufflePass(p) \/ RequestReturn(p)

SpecRequests == RequestInit /\ [][RequestNext]_vars

(***************************************************************************)
(* The length prefix of long payloads                                      *)
(***************************************************************************)
\* Bit counts of 2^31 and more are kept as two limbs, hi * Limb + lo with
\* 0 <= lo < Limb.
Limb == Pow2(16)

Wide(hi, lo) == [hi |-> hi, lo |-> lo]

\* a + k for a small k >= 0.
wide_add(a, k) == [hi |-> a.hi + (a.lo + k) \div Limb, lo |-> (a.lo + k) % Limb]

\* a > b
wide_gt(a, b) == a.hi > b.hi \/ (a.hi = b.hi /\ a.lo > b.lo)

\* The binary digits of a, most significant first, without leading zeros.
wide_bin_digits(a) ==
    IF a.hi = 0 THEN bin_digits(a.lo) ELSE bin_digits(a.hi) \o field_bits(a.lo, 16)

\* f"{payload_length:032b}" for a payload_length in limbs: the digits,
\* left-padded with zeros to a width of at least 32.
format_032b_wide(a) ==
    LET d == wide_bin_digits(a)
    IN  IF Len(d) >= 32 THEN d ELSE [k \in 1..(32 - Len(d)) |-> 0] \o d

\* int(length_bits, 2) in limbs.
wide_of_bits(bits) ==
    [hi |-> bits_value(bits, 0, Len(bits) - 16),
     lo |-> bits_value(bits, Len(bits) - 16, 16)]

\* Payload lengths in bits around 2^16, 2^31, 2^32 and 2^33.
PayloadLengths ==
    {Wide(hi, lo) : hi \in {0, 1, 32767, 32768, 65535, 65536, 65537, 131072},
                    lo \in {0, 1, Limb - 1}}

\* Values of total_capacity_bits: 31 and 32 bits, 2^32 + 32, 2^32 + 33, 2^34.
\* The frames that add up to a capacity are not part of this specification.
Capacities ==
    {Wide(0, 31), Wide(0, 32), Wide(65536, 32), Wide(65536, 33), Wide(262144, 0)}

PrefixInit ==
    /\ pc = "idle"
    /\ input_mp3 = << >>
    /\ mp3_bytes = << >>
    /\ i = 0
    /\ frame_idx = 0
    /\ results = << >>
    /\ frames_info = << >>
    /\ call = NoCall
    /\ ret = NoReturn
    /\ random_state = 0
    /\ seed_log = << >>

\* embed_into_ancillary up to the capacity pre-check, for a payload of
\* payload_length bits and frames of total_capacity_bits: the prefix is
\* formatted, len(full_payload) compared with the capacity.
FormatLengthPrefix ==
    /\ pc = "idle"
    /\ \E payload_length \in PayloadLengths, capacity \in Capacities :
         \E length_bits \in {format_032b_wide(payload_length)} :
            /\ call' = [op |-> "embed_into_ancillary", payload_length |-> payload_length,
                        total_capacity_bits |-> capacity]
            /\ ret' = IF wide_gt(wide_add(payload_length, Len(length_bits)), capacity)
                      THEN [status |-> "raised", error |-> "ValueError"]
                      ELSE [status |-> "passed", length_bits |-> length_bits]
    /\ pc' = "prefixed"
    /\ UNCHANGED <<seed_log, input_mp3, mp3_bytes, i, frame_idx, results, frames_info,
                   random_state>>

\* extract_from_ancillary at collected == 32: the first 32 bits of what embed
\* wrote are decoded as the payload length.
DecodeLengthPrefix ==
    /\ pc = "prefixed"
    /\ ret.status = "passed"
    /\ ret' = [status |-> "returned", length_bits |-> ret.length_bits,
               payload_length |-> wide_of_bits(Slice(ret.length_bits, 0, 32))]
    /\ pc' = "prefix_decoded"
    /\ UNCHANGED <<seed_log, input_mp3, mp3_bytes, i, frame_idx, results, frames_info,
                   call, random_state>>

PrefixNext == FormatLengthPrefix \/ DecodeLengthPrefix

SpecPrefix == PrefixInit /\ [][PrefixNext]_vars

(***************************************************************************)
(* The bit layout of a side-info region, offset by offset                  *)
(***************************************************************************)
RECURSIVE layout_offsets(_, _, _)
\* The bit offsets of the next k granule/channel blocks from offset pos, then
\* the offset after the last block: a block is 12 + 9 + 8 + 4 + 1 bits and
\* then 34 bits when its last bit, the window_switching_flag, is 1 and 25 bits
\* when it is 0.  The sequence ends with -1 when a block starts too late for
\* its flag to be in the region.
layout_offsets(bits, pos, k) ==
    IF k = 0 THEN <<pos>>
    ELSE IF pos + 34 > Len(bits) THEN <<0 - 1>>
    ELSE <<pos>> \o layout_offsets(bits, pos + 34 + (IF bits[pos + 34] = 1 THEN 34 ELSE 25),
                                   k - 1)

\* The channels the parser takes a region to have.
region_channels(region) == IF Len(region) = 17 THEN 1 ELSE 2

\* The block offsets of a region: 9 + 3 bits, then 2 granules of ch channels.
region_layout(region) ==
    layout_offsets(bytes_to_bitlist(region), 12, 2 * region_channels(region))

\* The layout, with the 4 scfsi bits per channel at its end, needs more bits
\* than the region has.
OutOfBits(region) ==
    \/ region_layout(region)[Len(region_layout(region))] < 0
    \/ region_layout(region)[Len(region_layout(region))] + 4 * region_channels(region)
          > 8 * Len(region)

(***************************************************************************)
(* Properties of the length prefix (SpecPrefix)                            *)
(***************************************************************************)
\* The payload passed the capacity pre-check of embed_into_ancillary.
PassedPreCheck ==
    /\ pc \in {"prefixed", "prefix_decoded"}
    /\ call.op = "embed_into_ancillary"
    /\ ret.status # "raised"

\* C30: for every payload that passes the capacity pre-check, also one of
\* 2^32 bits or more, the prefix embed_into_ancillary prepends is exactly 32
\* bits wide and is the payload bit length as an unsigned big-endian integer,
\* and the extractor's reading of the first 32 bits gives that length.
C30_PrefixIs32Bits ==
    PassedPreCheck =>
        /\ Len(ret.length_bits) = 32
        /\ wide_of_bits(ret.length_bits) = call.payload_length
        /\ pc = "prefix_decoded" => ret.payload_length = call.payload_length

\* The same for the payloads of fewer than 2^32 bits.
C30_PrefixIs32BitsBelowLimit ==
    (PassedPreCheck /\ call.payload_length.hi < Limb) => C30_PrefixIs32Bits

(***************************************************************************)
(* Properties of the side-info parser (SpecSideInfo)                       *)
(***************************************************************************)
\* C23: parse_side_info_fields reads 9 + 3 bits, then for each of 2 granules
\* and ch channels a block of 34 bits followed by 34 or 25 bits according to
\* the window_switching_flag, then 4 bits per channel; ch is 1 exactly for a
\* region of 17 bytes; each part2_3_length (and big_values) returned is the
\* value at the offset this layout gives, and there is no result exactly when
\* the layout needs more bits than the region has.
C23_SideInfoBitCursor ==
    pc = "parsed" =>
        IF OutOfBits(input_mp3) THEN IsNone(ret.value)
        ELSE /\ ~IsNone(ret.value)
             /\ ret.value.channels = region_channels(input_mp3)
             /\ ret.value.main_data_begin = bits_value(bytes_to_bitlist(input_mp3), 0, 9)
             /\ Len(ret.value.granules) = 2
             /\ \A gr \in 1..2 :
                   /\ Len(ret.value.granules[gr]) = region_channels(input_mp3)
                   /\ \A c \in 1..region_channels(input_mp3) :
                         /\ ret.value.granules[gr][c].part2_3_length
                               = bits_value(bytes_to_bitlist(input_mp3),
                                            region_layout(input_mp3)[
                                                (gr - 1) * region_channels(input_mp3) + c],
                                            12)
                         /\ ret.value.granules[gr][c].big_values
                               = bits_value(bytes_to_bitlist(input_mp3),
                                            region_layout(input_mp3)[
                                                (gr - 1) * region_channels(input_mp3) + c]
                                              + 12,
                                            9)

\* A region of 32 bytes has been parsed into four different non-zero
\* part2_3_length values.
C23_Witness ==
    /\ pc = "parsed"
    /\ Len(input_mp3) = 32
    /\ ~IsNone(ret.value)
    /\ ret.value.channels = 2
    /\ ret.value.granules[1][1].part2_3_length = 1365
    /\ ret.value.granules[2][2].part2_3_length = 1364

\* C24: parse_side_info_fields returns a result for every region of exactly
\* 17 or 32 bytes, whatever its bits.
C24_FullSizeRegionParses ==
    (pc = "parsed" /\ Len(input_mp3) \in {17, 32}) => ~IsNone(ret.value)

(***************************************************************************)
(* Properties of the scanner (SpecScan)                                    *)
(***************************************************************************)
\* C6: every frame record the scanner has appended lies inside the buffer
\* (header_idx + frame_size <= len(buffer)), its ancillary region ends where the
\* frame ends (ancillary_idx + ancillary_len = header_idx + frame_size), its
\* side info starts 4 bytes after the header and its main data side_info_size
\* bytes after that.
C6_FrameGeometry ==
    \A n \in 1..Len(results) :
        /\ results[n].header_idx + results[n].frame_size <= Len(input_mp3)
        /\ results[n].ancillary_idx + results[n].ancillary_len
              = results[n].header_idx + results[n].frame_size
        /\ results[n].side_info_idx = results[n].header_idx + 4
        /\ results[n].main_data_idx
              = results[n].side_info_idx + results[n].side_info_size

\* A finished scan that returned two frames, the second one placed after an
\* estimated main-data region of its own.
C6_Witness ==
    /\ pc = "scanned"
    /\ Len(results) = 2
    /\ results[2].header_idx > 0
    /\ results[2].estimated_main_bytes > 0
    /\ results[2].ancillary_len > 0

\* C7: every frame record the scanner has appended has estimated_main_bytes in
\* [0, frame_size - side_info_size - 4] and ancillary_len >= 0.
C7_NonNegativeAncillary ==
    \A n \in 1..Len(results) :
        /\ 0 <= results[n].estimated_main_bytes
        /\ results[n].estimated_main_bytes
              <= results[n].frame_size - results[n].side_info_size - 4
        /\ results[n].ancillary_len >= 0

\* The 11-bit sync is absent from the 4-byte header h.
SyncAbsent(h) == h[1] * 8 + h[2] \div 32 # 2047

\* The header h has layer bits 00, a bitrate index of table value 0 or the
\* sample-rate index of table value 0.
HeaderRejected(h) ==
    \/ (h[2] \div 2) % 4 = 0
    \/ (h[3] \div 16) % 16 \in {0, 15}
    \/ (h[3] \div 4) % 4 = 3

\* The 4 bytes at the cursor.
HeaderAtCursor == Slice(mp3_bytes, i, i + 4)

\* The cursor is on a header the scanner accepts.
CursorOnAcceptedHeader ==
    /\ i + 4 <= Len(mp3_bytes)
    /\ ~SyncAbsent(HeaderAtCursor)
    /\ ~HeaderRejected(HeaderAtCursor)

\* C18: a pass at a cursor i with i + 4 <= n appends nothing and moves the
\* cursor to i + 1 when the sync is absent or the header is rejected; when the
\* header is accepted and the frame fits, it appends one record with
\* header_idx = i and moves the cursor to i + frame_size.
C18_ResyncStep ==
    [][(pc = "scanning" /\ i + 4 <= Len(mp3_bytes)) =>
          IF SyncAbsent(HeaderAtCursor) \/ HeaderRejected(HeaderAtCursor)
          THEN /\ results' = results
               /\ i' = i + 1
          ELSE i + parse_header(HeaderAtCursor).frame_size <= Len(mp3_bytes) =>
                 /\ Len(results') = Len(results) + 1
                 /\ SubSeq(results', 1, Len(results)) = results
                 /\ results'[Len(results')].header_idx = i
                 /\ i' = i + parse_header(HeaderAtCursor).frame_size]_vars

\* A buffer that starts with a rejected header: the cursor has moved byte by
\* byte to the frame at offset 4 and then by the size of that frame.
C18_Witness ==
    /\ pc = "scanning"
    /\ Len(mp3_bytes) >= 4
    /\ ~SyncAbsent(Slice(mp3_bytes, 0, 4))
    /\ HeaderRejected(Slice(mp3_bytes, 0, 4))
    /\ Len(results) = 1
    /\ results[1].header_idx = 4
    /\ i = 4 + results[1].frame_size

\* C19: a pass at an accepted header whose frame runs past the end of the
\* buffer leaves the loop with the list as it is; every call returns, with
\* the records found and none at or after the cursor, and every scan that
\* has started ends.
C19_TruncatedFrameStops ==
    /\ [][(/\ pc = "scanning"
           /\ CursorOnAcceptedHeader
           /\ i + parse_header(HeaderAtCursor).frame_size > Len(mp3_bytes))
          => /\ pc' = "scanned"
             /\ results' = results
             /\ i' = i]_vars
    /\ [](pc = "scanned" =>
             /\ ret.status = "returned"
             /\ frames_info = results
             /\ \A k \in 1..Len(results) :
                   results[k].header_idx + results[k].frame_size <= i)
    /\ (pc = "scanning") ~> (pc = "scanned")

\* The scan has ended on a truncated frame after one whole frame.
C19_Witness ==
    /\ pc = "scanned"
    /\ CursorOnAcceptedHeader
    /\ i + parse_header(HeaderAtCursor).frame_size > Len(mp3_bytes)
    /\ Len(frames_info) = 1
    /\ i = frames_info[1].header_idx + frames_info[1].frame_size

\* C20: in the returned list the k-th record (from 0) has frame_index k,
\* header offsets increase strictly and a frame starts at or after the end of
\* the one before; a second scan of the same buffer returns the same list.
C20_OrderedDisjointFrames ==
    pc = "scanned" =>
        /\ \A k \in 1..Len(frames_info) : frames_info[k].frame_index = k - 1
        /\ \A k \in 1..(Len(frames_info) - 1) :
              /\ frames_info[k].header_idx < frames_info[k + 1].header_idx
              /\ frames_info[k + 1].header_idx
                    >= frames_info[k].header_idx + frames_info[k].frame_size
        /\ call.scan_no = 2 => frames_info = call.previous

\* The second scan of a buffer of two frames has returned.
C20_Witness ==
    /\ pc = "scanned"
    /\ call.scan_no = 2
    /\ Len(frames_info) = 2
    /\ call.previous = frames_info

\* Every header with the sync bits that parse_header accepts has
\* frame_size >= 1: all values of the version, layer, protection, bitrate,
\* sample-rate, padding and private bits, and of the channel mode.
AcceptedHeadersHaveSize ==
    \A b1 \in 224..255, b2 \in 0..255, channel_mode \in 0..3 :
        \/ IsNone(parse_header(<<255, b1, b2, 64 * channel_mode>>))
        \/ parse_header(<<255, b1, b2, 64 * channel_mode>>).frame_size >= 1

\* C21: every pass of the loop leaves it or moves the cursor forward by at
\* least 1, every accepted header has frame_size >= 1, and every scan that
\* has started ends.
C21_ScannerTerminates ==
    /\ [][pc = "scanning" => (pc' = "scanned" \/ i' >= i + 1)]_vars
    /\ []AcceptedHeadersHaveSize
    /\ (pc = "scanning") ~> (pc = "scanned")

\* A scan has ended after passes that moved the cursor by 1 and a pass that
\* moved it by a frame size.
C21_Witness ==
    /\ pc = "scanned"
    /\ Len(frames_info) = 1
    /\ frames_info[1].header_idx = 1
    /\ i = frames_info[1].header_idx + frames_info[1].frame_size
    /\ i = Len(mp3_bytes)

\* The side-info region the scanner reads for a record.
SideInfoRegionOf(f) ==
    Slice(mp3_bytes, f.side_info_idx, f.side_info_idx + f.side_info_size)

\* C22: a pass at an accepted header whose frame fits and whose side-info
\* region runs out of bits appends a record without parsed side info, with
\* estimated_main_bytes = 0 and the ancillary region from main_data_idx to the
\* end of the frame, and goes on at the next frame; a record lacks parsed
\* side info only when its own region runs out of bits.
C22_SideInfoFailSoft ==
    /\ [][(/\ pc = "scanning"
           /\ CursorOnAcceptedHeader
           /\ i + parse_header(HeaderAtCursor).frame_size <= Len(mp3_bytes)
           /\ OutOfBits(Slice(mp3_bytes, i + 4,
                              i + 4 + parse_header(HeaderAtCursor).side_info_size)))
          => /\ pc' = "scanning"
             /\ i' = i + parse_header(HeaderAtCursor).frame_size
             /\ Len(results') = Len(results) + 1
             /\ SubSeq(results', 1, Len(results)) = results
             /\ IsNone(results'[Len(results')].parsed_side_info)
             /\ results'[Len(results')].estimated_main_bytes = 0
             /\ results'[Len(results')].ancillary_idx = results'[Len(results')].main_data_idx
             /\ results'[Len(results')].ancillary_idx + results'[Len(results')].ancillary_len
                   = i + parse_header(HeaderAtCursor).frame_size]_vars
    /\ [](\A k \in 1..Len(results) :
             IsNone(results[k].parsed_side_info) <=> OutOfBits(SideInfoRegionOf(results[k])))

\* A frame whose side info runs out of bits is followed by a frame whose side
\* info is parsed and counted.
C22_Witness ==
    /\ pc = "scanned"
    /\ Len(frames_info) = 2
    /\ IsNone(frames_info[1].parsed_side_info)
    /\ frames_info[1].estimated_main_bytes = 0
    /\ frames_info[1].ancillary_len > 0
    /\ ~IsNone(frames_info[2].parsed_side_info)
    /\ frames_info[2].estimated_main_bytes > 0

(***************************************************************************)
(* Properties of the codec (SpecCodec)                                     *)
(***************************************************************************)
Embedded == pc \in {"embedded", "extracted"}

\* Bits the frames selected by step/start_frame can take: those frames of
\* frames[start_frame::step] that have an ancillary region.
selected_usable_bits(frames, bits_per_byte, step, start_frame) ==
    total_capacity_bits(stride(frames, start_frame, step), bits_per_byte)

\* 0-based offset k lies in the ancillary range of a scanned frame.
InAncillaryRange(k) ==
    \E n \in 1..Len(frames_info) :
        /\ frames_info[n].ancillary_idx <= k
        /\ k < frames_info[n].ancillary_idx + frames_info[n].ancillary_len

\* C1: when the 32-bit length prefix and the payload together fit the capacity
\* of the plan (bits_per_byte times the sum of ancillary_len over
\* frames[start_frame::step]), embedding returns normally and extracting from
\* the resulting buffer with the same frames and plan gives the payload back.
C1_RoundTrip ==
    (/\ Embedded
     /\ 32 + Len(call.payload_bits)
           <= capacity_bits(frames_info, call.bits_per_byte, call.step, call.start_frame))
    => /\ ret.status = "returned"
       /\ pc = "extracted" => ret.value = call.payload_bits

\* A payload of two bits, embedded through scrambled frames with step 2 and
\* read back.
C1_Witness ==
    /\ pc = "extracted"
    /\ call.op = "embed_into_ancillary"
    /\ Len(call.payload_bits) = 2
    /\ call.seed >= 0
    /\ call.step = 2
    /\ Len(frames_info) = 2
    /\ 32 + Len(call.payload_bits)
          <= capacity_bits(frames_info, call.bits_per_byte, call.step, call.start_frame)
    /\ ret.value = call.payload_bits

\* C1 as stated: a payload no longer than the capacity of the plan is embedded
\* and read back.
C1_PayloadWithinCapacity ==
    (/\ Embedded
     /\ Len(call.payload_bits)
           <= capacity_bits(frames_info, call.bits_per_byte, call.step, call.start_frame))
    => /\ ret.status = "returned"
       /\ pc = "extracted" => ret.value = call.payload_bits

\* C2: after embed_into_ancillary or embed_binary the buffer has the length of
\* the carrier, every byte outside the ancillary ranges of the scanned frames
\* is the carrier's, and every byte inside one keeps its high
\* 8 - bits_per_byte bits.
C2_FrameEffect ==
    Embedded =>
        /\ Len(mp3_bytes) = Len(input_mp3)
        /\ \A k \in 1..Len(input_mp3) :
              IF InAncillaryRange(k - 1)
              THEN mp3_bytes[k] \div Pow2(call.bits_per_byte)
                      = input_mp3[k] \div Pow2(call.bits_per_byte)
              ELSE mp3_bytes[k] = input_mp3[k]

\* embed_binary has returned and has rewritten the low bits of a byte 255.
C2_Witness ==
    /\ pc = "embedded"
    /\ call.op = "embed_binary"
    /\ ret.status = "returned"
    /\ \E k \in 1..Len(input_mp3) :
          /\ input_mp3[k] = 255
          /\ mp3_bytes[k] # 255
          /\ InAncillaryRange(k - 1)

\* C3: when the length prefix and the payload exceed what the frames selected
\* by step/start_frame can take, embed_into_ancillary raises and the buffer is
\* the carrier, byte for byte.
C3_AllOrNothing ==
    (/\ pc = "embedded"
     /\ 32 + Len(call.payload_bits)
           > selected_usable_bits(frames_info, call.bits_per_byte, call.step,
                                  call.start_frame))
    => /\ ret.status = "raised"
       /\ mp3_bytes = input_mp3

\* C8: the capacity embed_binary reports for bits_per_byte = k + 1 is at least
\* the one for k, and so is the pre-check total of embed_into_ancillary.
C8_CapacityMonotone ==
    (/\ pc = "embedded"
     /\ call.op = "embed_binary"
     /\ call.bits_per_byte > 1)
    => /\ ret.capacity_bits
             >= capacity_bits(frames_info, call.bits_per_byte - 1, call.step,
                              call.start_frame)
       /\ total_capacity_bits(frames_info, call.bits_per_byte)
             >= total_capacity_bits(frames_info, call.bits_per_byte - 1)

\* C17: with step = 1 and start_frame = 0, extract_binary of a buffer
\* embed_binary returned, with the same bits_per_byte and seed, gives back
\* exactly the bytes embed_binary was given.
C17_BinaryRoundTrip ==
    (/\ pc = "binary_extracted"
     /\ call.step = 1
     /\ call.start_frame = 0)
    => ret.data = call.payload_data

\* A non-empty payload read back through a frame list the seed has reordered.
C17_Witness ==
    /\ pc = "binary_extracted"
    /\ call.step = 1
    /\ call.start_frame = 0
    /\ call.seed >= 0
    /\ frames_info # scan_frames_for_ancillary(mp3_bytes)
    /\ Len(call.payload_data) > 0
    /\ mp3_bytes # input_mp3
    /\ ret.data = call.payload_data

\* The low bits_per_byte bits of a byte, most significant first.
low_bits(byte, bits_per_byte) ==
    [k \in 1..bits_per_byte |-> (byte \div Pow2(bits_per_byte - k)) % 2]

\* The readable bits of a buffer under a plan: the low bits of the ancillary
\* bytes of the frames of frames[start_frame::step] that have an ancillary
\* region, in frame and byte order.
readable_bits(buf, frames, bits_per_byte, step, start_frame) ==
    LET selected == stride(frames, start_frame, step)
    IN  Flatten([n \in 1..Len(selected) |->
                   IF selected[n].ancillary_len <= 0 THEN << >>
                   ELSE Flatten([b \in 1..selected[n].ancillary_len |->
                                   low_bits(buf[selected[n].ancillary_idx + b],
                                            bits_per_byte)])])

\* The readable bits of the buffer extract_from_ancillary was called on.
ReadableBits ==
    readable_bits(mp3_bytes, frames_info, call.bits_per_byte, call.step, call.start_frame)

\* extract_from_ancillary has returned, on an embedded buffer or on a carrier.
Extracted == pc \in {"extracted", "carrier_extracted"}

\* C16: when a >= 32 bits are readable and the first 32 decode to L,
\* extract_from_ancillary returns the readable bits 32 .. 32 + min(L, a - 32) - 1
\* and none of the 32 prefix bits.
C16_PayloadSegmentOnly ==
    (Extracted /\ Len(ReadableBits) >= 32) =>
        /\ ret.status = "returned"
        /\ ret.value = Slice(ReadableBits, 32,
                             32 + Min(prefix_length(Slice(ReadableBits, 0, 32)),
                                      Len(ReadableBits) - 32))

\* C13: extraction from a carrier nothing was embedded into raises, or reads
\* a length prefix that declares more bits than the carrier has.
C13_NeverEmbeddedCarrier ==
    pc = "carrier_extracted" =>
        \/ ret.status = "raised"
        \/ /\ Len(ReadableBits) >= 32
           /\ 32 + prefix_length(Slice(ReadableBits, 0, 32)) > Len(ReadableBits)

\* The 0-based offsets of the usable ancillary bytes of a plan in traversal
\* order: the frames at list positions start_frame, start_frame + step, ...
\* that have ancillary_len > 0, and in each the offsets ancillary_idx + b below
\* the length n of the buffer, b increasing.
usable_offsets(frames, n, step, start_frame) ==
    LET selected == stride(frames, start_frame, step)
    IN  Flatten([m \in 1..Len(selected) |->
                   IF selected[m].ancillary_len <= 0 THEN << >>
                   ELSE [b \in 1..Max(0, Min(selected[m].ancillary_len,
                                             n - selected[m].ancillary_idx)) |->
                            selected[m].ancillary_idx + (b - 1)]])

\* The usable offsets of the plan of the current call.
UsableOffsets ==
    usable_offsets(frames_info, Len(input_mp3), call.step, call.start_frame)

\* Bytes needed for the prefix and the payload: ceil((32 + len) / bits_per_byte).
bytes_needed(payload_bits, bits_per_byte) ==
    (32 + Len(payload_bits) + bits_per_byte - 1) \div bits_per_byte

\* The offsets embed_into_ancillary reports as written, in the order written.
WrittenOffsets == [k \in 1..Len(ret.used) |-> ret.used[k][2]]

\* embed_into_ancillary has returned normally.
EmbedReturned ==
    pc = "embedded" /\ call.op = "embed_into_ancillary" /\ ret.status = "returned"

\* C25: when embed_into_ancillary returns, the bytes it wrote are exactly the
\* first ceil((32 + len(payload_bits)) / bits_per_byte) usable ancillary bytes
\* in traversal order and every other byte is the carrier's; the bit slots of
\* the last written byte beyond the payload are 0; the returned bit count
\* exceeds 32 + len(payload_bits) by at most bits_per_byte - 1.
C25_StopsWhenWritten ==
    EmbedReturned =>
        LET need == bytes_needed(call.payload_bits, call.bits_per_byte)
            total == 32 + Len(call.payload_bits)
            last == ret.used[Len(ret.used)]
        IN  /\ Len(UsableOffsets) >= need
            /\ WrittenOffsets = Slice(UsableOffsets, 0, need)
            /\ \A k \in 1..Len(input_mp3) :
                  (\A w \in 1..Len(WrittenOffsets) : WrittenOffsets[w] # k - 1)
                  => mp3_bytes[k] = input_mp3[k]
            /\ low_bits(mp3_bytes[last[2] + 1], call.bits_per_byte) = last[3]
            /\ \A k \in 1..call.bits_per_byte :
                  (need - 1) * call.bits_per_byte + k > total => last[3][k] = 0
            /\ ret.bit_idx >= total
            /\ ret.bit_idx <= total + call.bits_per_byte - 1

\* The same for the calls in which the frames selected by step and start_frame
\* can take the prefix and the payload.
C25_StopsWhenWrittenIfSelectedFit ==
    (/\ EmbedReturned
     /\ 32 + Len(call.payload_bits)
           <= selected_usable_bits(frames_info, call.bits_per_byte, call.step,
                                   call.start_frame))
    => C25_StopsWhenWritten

\* What embed_into_ancillary reports as used for the carrier, frame list,
\* payload and plan of the current call.
WouldWrite ==
    embed_into_ancillary(input_mp3, frames_info, call.payload_bits, call.bits_per_byte,
                         call.step, call.start_frame).used

\* Byte offset and bit position (0 = least significant) the j-th written bit
\* goes to: the bits collected for a byte are assembled most significant first
\* into its low bits_per_byte bits.
written_slot(used, j, bits_per_byte) ==
    <<used[((j - 1) \div bits_per_byte) + 1][2],
      bits_per_byte - 1 - ((j - 1) % bits_per_byte)>>

\* C26: for the same frame list and plan, the bits extract_from_ancillary
\* reads are no more than the bits embed_into_ancillary writes, the j-th bit
\* read comes from the byte and bit position the j-th written bit went to, and
\* the offsets read are, in order, the first offsets embed writes, also when
\* bits_per_byte does not divide 32.
C26_SameTraversal ==
    pc = "extracted" =>
        \E used \in {WouldWrite} :
            /\ Len(ret.slots) <= Len(used) * call.bits_per_byte
            /\ \A j \in 1..Len(ret.slots) :
                  /\ ret.slots[j] = written_slot(used, j, call.bits_per_byte)
                  /\ (mp3_bytes[ret.slots[j][1] + 1] \div Pow2(ret.slots[j][2])) % 2
                        = used[((j - 1) \div call.bits_per_byte) + 1][3]
                              [((j - 1) % call.bits_per_byte) + 1]

\* A payload of two bits written with bits_per_byte = 3 through frames the
\* seed has reordered: 34 bits read from 12 bytes, the last from the middle
\* bit position of its byte.
C26_Witness ==
    /\ pc = "extracted"
    /\ call.op = "embed_into_ancillary"
    /\ call.bits_per_byte = 3
    /\ call.seed >= 0
    /\ Len(call.payload_bits) = 2
    /\ ret.value = call.payload_bits
    /\ Len(ret.slots) = 34
    /\ ret.slots[34][2] = 2
    /\ ret.slots[33][1] # ret.slots[34][1]
    /\ Len(WouldWrite) = 12

\* 0-based offset k is a header byte of frame f or lies in the side-info
\* region the scanner reads for it, side_info_idx .. side_info_idx +
\* side_info_size - 1, which may reach past the end of the frame.
ReadByScanner(f, k) ==
    \/ f.header_idx <= k /\ k < f.header_idx + 4
    \/ f.side_info_idx <= k /\ k < f.side_info_idx + f.side_info_size

(***************************************************************************)
(* Properties of the embedding entry points (SpecEmbed)                    *)
(***************************************************************************)
\* C28: after embed_into_ancillary or embed_binary has returned, with any plan
\* and seed, scanning the modified buffer gives the frame list scanning the
\* carrier gave (results), and no byte written or changed is a header byte or
\* a side-info byte of a frame of that list.
C28_ScanInvariantUnderEmbed ==
    (pc = "embedded" /\ ret.status = "returned") =>
        /\ scan_frames_for_ancillary(mp3_bytes) = results
        /\ \A k \in 1..Len(input_mp3) :
              mp3_bytes[k] # input_mp3[k] =>
                 \A n \in 1..Len(results) : ~ReadByScanner(results[n], k - 1)
        /\ call.op = "embed_into_ancillary" =>
              \A w \in 1..Len(ret.used), n \in 1..Len(results) :
                  ~ReadByScanner(results[n], ret.used[w][2])

\* An embed through a scrambled frame list has changed bytes of a carrier
\* whose first frame has a side-info region reaching past the frame's end
\* into the frame that was written to.
C28_Witness ==
    /\ pc = "embedded"
    /\ ret.status = "returned"
    /\ call.seed >= 0
    /\ mp3_bytes # input_mp3
    /\ Len(frames_info) = 2
    /\ \E n \in 1..2 :
          /\ frames_info[n].side_info_idx + frames_info[n].side_info_size
                > frames_info[n].header_idx + frames_info[n].frame_size
          /\ frames_info[n].header_idx = 0
    /\ results = scan_frames_for_ancillary(input_mp3)
    /\ scan_frames_for_ancillary(mp3_bytes) = results

(***************************************************************************)
(* Properties of the scrambler (SpecScramble)                              *)
(***************************************************************************)
\* C9: the list scramble_frames_with_seed returns has the length of the list
\* it was given and holds each of its records exactly once, and the list it
\* was given is still the scanned list, in scan order.
C9_Permutation ==
    pc = "scrambled" =>
        /\ Len(frames_info) = Len(call.frames)
        /\ \A n \in 1..Len(call.frames) :
              Cardinality({m \in 1..Len(frames_info) : frames_info[m] = call.frames[n]}) = 1
        /\ results = call.frames
        /\ results = scan_frames_for_ancillary(input_mp3)

\* Four frames have been scrambled into another order.
C9_Witness ==
    /\ pc = "scrambled"
    /\ Len(results) = 4
    /\ frames_info # results

(***************************************************************************)
(* Properties of the cipher (SpecCipher)                                   *)
(***************************************************************************)
\* C5: vignereCipher returns, for every text and key, a byte string of the
\* length of the text whose byte i is (X[i] + K[i mod len(K)]) mod 256, and
\* vignereDecipher with the same key gives the text back.
C5_CipherRoundTrip ==
    /\ pc = "ciphered" =>
          /\ ret.status = "returned"
          /\ Len(ret.value) = Len(call.input)
          /\ \A n \in 1..Len(call.input) :
                ret.value[n]
                   = (call.input[n] + call.key[((n - 1) % Len(call.key)) + 1]) % 256
    /\ pc = "deciphered" =>
          /\ ret.status = "returned"
          /\ ret.value = call.plain

\* The bytes (pw[i] + fixed_key[i mod 10]) mod 256 over the encoded passphrase.
derived_bytes(pw) ==
    [n \in 1..Len(encode(pw)) |->
        (encode(pw)[n] + <<105, 108, 111, 118, 101, 100, 111, 116, 97, 50>>[((n - 1) % 10) + 1])
           % 256]

\* C10: every evaluation of generateSeed(generateKey(pw)) gives the square of
\* the sum of the derived key bytes, and two evaluations for the same
\* passphrase give the same integer, whatever was evaluated before.
C10_SeedDeterministic ==
    \A a, b \in 1..Len(seed_log) :
        /\ seed_log[a].seed = SumSeq(derived_bytes(seed_log[a].pw))
                                 * SumSeq(derived_bytes(seed_log[a].pw))
        /\ seed_log[a].pw = seed_log[b].pw => seed_log[a].seed = seed_log[b].seed

\* Two evaluations for the same passphrase of more than ten bytes, after which
\* the cipher has been called.
C10_Witness ==
    /\ Len(seed_log) = 2
    /\ seed_log[1].pw = seed_log[2].pw
    /\ Len(seed_log[1].pw) > 10
    /\ seed_log[1].seed = seed_log[2].seed
    /\ seed_log[1].seed > 0
    /\ pc = "deciphered"

(***************************************************************************)
(* Properties of the pipeline (SpecPipeline)                               *)
(***************************************************************************)
\* C4: whenever encrypt has returned a carrier, decrypt on it with the same
\* key, is_scrambled = randomEmbedding, is_encrypted = useEncryption and
\* bits_per_byte = lsbBits returns the embedded fn/en/re/ls record and the
\* embedded secret.
C4_PipelineRoundTrip ==
    (/\ pc = "decrypted"
     /\ call.key = call.config.encryptionKey)
    => /\ ret.status = "returned"
       /\ ret.config = embedded_config_of(call.config)
       /\ ret.extracted_data = call.embed_data

\* The container bytes a carrier returned by encrypt holds: what extract_binary
\* reads back with the lsbBits and the seed encrypt embedded with.
embedded_container ==
    extract_binary(mp3_bytes, call.config.lsbBits, 1, 0, encrypt_seed(call.config))

EncryptReturned == pc = "encrypted" /\ ret.status = "returned"

\* C14: in a carrier encrypt returned, the 4-byte length prefix of the
\* container is embedded in clear: its bytes are the ones embedded without a
\* key, struct.pack(">I", len(metadata JSON)).
C14_LengthPrefixInClear ==
    EncryptReturned =>
        Slice(embedded_container, 0, 4)
           = struct_pack_I(Len(json_dumps(embedded_config_of(call.config))))

\* C15: without a key, the container in a carrier encrypt returned is a 4-byte
\* big-endian prefix holding the byte length of metadata || secret, then the
\* metadata JSON, then the secret bytes.
C15_ContainerLayout ==
    (EncryptReturned /\ IsNone(call.config.encryptionKey)) =>
        embedded_container
           = struct_pack_I(Len(json_dumps(embedded_config_of(call.config)))
                              + Len(call.embed_data))
                \o json_dumps(embedded_config_of(call.config))
                \o call.embed_data

\* The file decrypt was called on.
DecryptInput == IF pc = "decrypted" THEN mp3_bytes ELSE call.audio_data

\* The loop state of the extractor in the decrypt call made.
DecryptExtraction ==
    extract_loop(DecryptInput,
                 frames_for(DecryptInput,
                            decrypt_seed(call.key, call.config.randomEmbedding)),
                 call.config.lsbBits, 1, 0, 0 - 1)

\* C12: decrypt returns a (metadata, secret) pair only when the extractor read
\* a length prefix and collected all the payload bits it declares.
C12_NoPartialResult ==
    (pc \in {"decrypted", "truncated_decrypted"} /\ ret.status = "returned") =>
        /\ DecryptExtraction.have_length
        /\ DecryptExtraction.collected >= DecryptExtraction.target_bits

\* encrypt got as far as its call of embed_binary: it returned a carrier, or
\* embed_binary raised the capacity error.
EncryptCalledCodec ==
    /\ pc = "encrypted"
    /\ \/ ret.status = "returned"
       \/ ret.status = "raised" /\ ret.error = "ValueError"

\* C27: encrypt hands embed_binary a seed exactly when randomEmbedding is true,
\* and the seed is generateSeed(generateKey(key)); decrypt on a carrier encrypt
\* returned, with the same key and is_scrambled = randomEmbedding, hands
\* extract_binary the same seed, or none when encrypt handed none.
C27_SeedOnRequestAndAgreed ==
    /\ EncryptCalledCodec =>
          /\ (call.seed # NoSeed) <=> call.config.randomEmbedding
          /\ call.config.randomEmbedding =>
                call.seed = generateSeed(generateKey(call.config.encryptionKey.text))
    /\ (pc = "decrypted" /\ call.key = call.config.encryptionKey) =>
          /\ call.seed = call.encrypt_seed
          /\ (call.seed # NoSeed) <=> call.config.randomEmbedding

\* decrypt has read a carrier back through the frame order of the seed of the
\* key "pw", the order encrypt embedded in.
C27_Witness ==
    /\ pc = "decrypted"
    /\ call.config.randomEmbedding
    /\ call.key = call.config.encryptionKey
    /\ call.key = Str(<<112, 119>>)
    /\ call.seed = generateSeed(generateKey(<<112, 119>>))
    /\ call.seed = call.encrypt_seed
    /\ mp3_bytes # input_mp3
    /\ frames_after_seed(scan_frames_for_ancillary(mp3_bytes), call.seed, 0).list
          # scan_frames_for_ancillary(mp3_bytes)

\* The container encrypt builds before any ciphering: length prefix, metadata
\* JSON, secret.
PlainContainer ==
    payload_data_of(json_dumps(embedded_config_of(call.config)), call.embed_data)

\* The container in the carrier is the vignereCipher image of the plain one
\* under the generated key of the config, and not the plain one.
ContainerCiphered ==
    /\ ~IsNone(call.config.encryptionKey)
    /\ embedded_container # PlainContainer
    /\ embedded_container
          = vignereCipher(PlainContainer,
                          generateKey(call.config.encryptionKey.text)).value

\* C29: in a carrier encrypt returned, the embedded container went through
\* the cipher exactly when the metadata field "en" it carries, useEncryption
\* of the config, is true; otherwise it is the plain container.
C29_EnFlagTellsCiphered ==
    EncryptReturned =>
        /\ ContainerCiphered <=> embedded_config_of(call.config).en
        /\ ~ContainerCiphered => embedded_container = PlainContainer

(***************************************************************************)
(* Properties of concurrent requests (SpecRequests)                        *)
(***************************************************************************)
\* C11: the frame order a request gets back from scramble_frames_with_seed is
\* the order its own seed gives for its frame list, whatever the other request
\* does in between.
C11_OrderBySeedOnly ==
    \A p \in Requests :
        pc[p] = "done" => ret[p].value = scramble_frames_with_seed(results, call[p].seed)

=============================================================================
